---- MODULE Spec2Model ----
(***************************************************************************)
(* A model of PRofessor-github-reviewer: the webhook gateway               *)
(* (src/src/services/webhook.ts), the review orchestrator it drives        *)
(* (CodeReviewerService) and the provider capability's request ledger      *)
(* (ClaudeService, ChatGPTService, GeminiService over ProviderService).    *)
(*                                                                         *)
(* These specifications share the module's variables:                      *)
(*   SpecVerify    - verifySignature applied to bounded headers and bodies *)
(*   Spec          - the webhook handler and the workflows it awaits       *)
(*   SpecTests     - the same on one delivery for a larger pull request    *)
(*   SpecPush      - SpecTests while the pull request is pushed to         *)
(*   SpecLedger    - generateResponse and the ledger of CallRecords        *)
(*   SpecAnalytics - the ledger's queries on the ledgers calls leave       *)
(*   SpecParse     - the capability's methods on bounded answers           *)
(* Each leaves the other parts' variables at their initial values.         *)
(*                                                                         *)
(* In the comments reviewer.ts is services/reviewer.ts (the first class of *)
(* src/unnamed/part_005), provider_service.ts the last class of that file, *)
(* and claude.ts is services/models/claude.ts (src/unnamed/part_003).      *)
(***************************************************************************)
EXTENDS Integers, Sequences, FiniteSets, TLC

VARIABLES
    \* --- signature verification (SpecVerify)
    vHdr,       \* the x-hub-signature-256 header of the request under test
    vRaw,       \* its req.rawBody
    vOut,       \* what verifySignature returned, None before the call
    \* --- webhook gateway (Spec)
    req,        \* per delivery: the request as the handler reads it
    pc,         \* per delivery: where its handler is suspended
    resp,       \* per delivery: the HTTP responses sent, in order
    ghLog,      \* per delivery: GitHub collaborator calls issued, in order
    rejected,   \* the deliveries one of whose GitHub calls rejected
    caught,     \* per delivery: the catch blocks that caught a throw
    aiLog,      \* per delivery: provider capability calls issued, in order
    posted,     \* per delivery: what it created on GitHub, in order
    wf,         \* per delivery: locals of the awaited workflow
    head,       \* the pull request's current head commit
    autoTests,  \* process.env.AUTO_GENERATE_TESTS === 'true'
    listed,     \* the changed files GitHub lists for the pull request
    \* --- provider ledger (SpecLedger)
    variant,    \* which ProviderService subclass the instance is
    requests,   \* this.requests, the ledger
    call,       \* per generateResponse call: its locals and position
    now,        \* the clock read by new Date()
    ret,        \* what the latest ledger query returned, None otherwise
    \* --- review text parsing (SpecParse)
    pIn,        \* what generateResponse answers the capability method
    pOp,        \* the capability method invoked, "" before the call
    pCalls,     \* the generateResponse calls the method has made
    pOut        \* what the method did with the answer, None before that

wvars == <<req, pc, resp, ghLog, rejected, caught, aiLog, posted, wf, head, autoTests,
          listed>>
lvars == <<variant, requests, call, now>>
svars == <<vHdr, vRaw, vOut>>
avars == <<ret>>
pvars == <<pIn, pOp, pCalls, pOut>>
vars == <<vHdr, vRaw, vOut, req, pc, resp, ghLog, rejected, caught, aiLog, posted, wf, head,
          autoTests, listed, variant, requests, call, now, ret, pIn, pOp, pCalls, pOut>>

\* An optional value is a sequence of length at most one.
None == <<>>
Some(v) == <<v>>
IsSome(o) == o # <<>>
Val(o) == o[1]

(***************************************************************************)
(* Signature verification: WebhookService.verifySignature.                 *)
(* Strings are sequences of character codes, buffers sequences of bytes.   *)
(***************************************************************************)

\* Hex digits of the model's digest (the real one has 64).
DigestLen == 4

\* Bodies of the verification check: at most this many bytes.
MaxBodyLen == 2

\* config.secret, and a secret an attacker might sign with instead.
Secret == 1
WrongSecret == Secret + 1

RECURSIVE BodyCode(_)
BodyCode(b) == IF b = <<>> THEN 1 ELSE BodyCode(SubSeq(b, 1, Len(b) - 1)) * 8 + b[Len(b)]

\* createHmac('sha256', key).update(body): node's crypto, outside the
\* repository.  Modelled as a keyed function without collisions on the
\* bounded bodies (bytes below 8, length at most 3).
HmacSha256(key, body) == (key * 4099 + BodyCode(body) * 3 + 11) % (16 ^ DigestLen)

HexChar(d) == IF d < 10 THEN 48 + d ELSE 87 + d

\* .digest('hex')
HexDigest(n) == [i \in 1..DigestLen |-> HexChar((n \div (16 ^ (DigestLen - i))) % 16)]

\* 'sha256='
SigPrefix == <<115, 104, 97, 50, 53, 54, 61>>

DigestNoPrefix(raw) == HexDigest(HmacSha256(Secret, raw))

\* const digest = 'sha256=' + hmac.update(req.rawBody).digest('hex')
Digest(raw) == SigPrefix \o HexDigest(HmacSha256(Secret, raw))

\* Buffer.from(s, 'utf8'): one byte below 0x80, two bytes up to 0x7ff.
RECURSIVE Utf8(_)
Utf8(s) ==
    IF s = <<>> THEN <<>>
    ELSE (IF Head(s) < 128 THEN <<Head(s)>>
          ELSE <<192 + (Head(s) \div 64), 128 + (Head(s) % 64)>>) \o Utf8(Tail(s))

\* crypto.timingSafeEqual: throws a RangeError on buffers of different length.
TimingSafeEqual(a, b) ==
    IF Len(a) # Len(b) THEN [threw |-> TRUE, value |-> FALSE]
    ELSE [threw |-> FALSE, value |-> a = b]

CompareBuffersLengthOnly(signature, digest) ==
    [threw |-> FALSE, value |-> Len(Utf8(signature)) = Len(Utf8(digest))]

\* The try block of verifySignature.
CompareBuffers(signature, digest) ==
    LET signatureBuffer == Utf8(signature)
        digestBuffer == Utf8(digest)
    IN  IF Len(signatureBuffer) # Len(digestBuffer)
        THEN [threw |-> FALSE, value |-> FALSE]
        ELSE TimingSafeEqual(signatureBuffer, digestBuffer)

\* verifySignature(req): hdr and raw are optional; '' is falsy, a Buffer is
\* truthy even when empty.  The catch turns a throw into false.
VerifySignature(hdr, raw) ==
    IF hdr = None \/ Val(hdr) = <<>> \/ raw = None
    THEN [threw |-> FALSE, value |-> FALSE]
    ELSE LET r == CompareBuffers(Val(hdr), Digest(Val(raw)))
         IN  IF r.threw THEN [threw |-> FALSE, value |-> FALSE] ELSE r

\* ---- inputs of the verification check
VerifyBytes == {0, 1}

VerifyBodies == UNION {[1..n -> VerifyBytes] : n \in 0..MaxBodyLen}

SignedBy(key, raw) == SigPrefix \o HexDigest(HmacSha256(key, raw))

\* s with its i-th character replaced by c
Replace(s, i, c) == [j \in 1..Len(s) |-> IF j = i THEN c ELSE s[j]]

\* s with one character changed (to another hex digit, or to a character of
\* two UTF-8 bytes), cut short, extended, or emptied
Tampered(s) ==
    ({Replace(s, i, c) : i \in 1..Len(s), c \in {48, 49, 233}} \ {s})
        \cup {SubSeq(s, 1, Len(s) - 1), s \o <<48>>, <<>>}

VerifyHeaders ==
    LET signed == {SignedBy(k, b) : k \in {Secret, WrongSecret}, b \in VerifyBodies}
    IN  {None} \cup {Some(s) : s \in signed \cup UNION {Tampered(SignedBy(Secret, b)) : b \in VerifyBodies}}

VerifyRawBodies == {None} \cup {Some(b) : b \in VerifyBodies}

\* The variables of the verification check when another part runs.
VerifyIdle == vHdr = None /\ vRaw = None /\ vOut = None

\* One call of verifySignature on the request drawn initially.
Verify ==
    /\ vOut = None
    /\ vOut' = Some(VerifySignature(vHdr, vRaw))
    /\ UNCHANGED <<vHdr, vRaw>>

(***************************************************************************)
(* Webhook gateway: WebhookService.setupWebhook and the workflows its      *)
(* handler awaits.  One action is one turn of the event loop: the code     *)
(* that runs from the completion of an awaited call to the next await.     *)
(***************************************************************************)

\* Deliveries in one run, and pushes to the pull request during it.
MaxReq == 2
MaxPush == 1

Req == 1..MaxReq

\* payload.action, by the first byte of the body
ActionNames == <<"opened", "synchronize", "reopened", "closed", "created", "deleted">>

\* express.json() parses the raw body <<action, shape>> into req.body.
\* shape 0: no repository object; 1: complete, the comment (if the event has
\* one) has an id and no in_reply_to_id; 2: it has both; 3: it has
\* in_reply_to_id and no id; 4: complete but without a comment object; 5: as
\* 2, and comment.user.login is the bot's: the event GitHub sends for a reply
\* the bot has posted in a thread.
PayloadAction(raw) == IF raw[1] = 0 THEN "" ELSE ActionNames[raw[1]]
HasRepository(raw) == raw[2] # 0
HasComment(raw) == raw[2] # 4
InReplyTo(raw) == IF raw[2] \in {2, 3, 5} THEN Some(1) ELSE None
CommentId(raw) == IF raw[2] = 5 THEN Some(3) ELSE IF raw[2] \in {1, 2} THEN Some(2) ELSE None
CommentAuthor(raw) == IF raw[2] = 5 THEN "bot" ELSE "dev"

\* What GitHub (or anyone who can reach the port) may send.
Contents ==
    {[event |-> e, raw |-> <<0, 1>>] : e \in {"ping", "push"}}
        \cup {[event |-> "pull_request", raw |-> <<a, 1>>] : a \in 1..4}
        \cup {[event |-> "pull_request", raw |-> <<1, 0>>]}
        \cup {[event |-> "pull_request_review_comment", raw |-> <<5, sh>>] : sh \in 0..5}
        \cup {[event |-> "pull_request_review_comment", raw |-> <<6, 2>>]}

NoReq == [event |-> "", sig |-> None, raw |-> None, guid |-> 0]

\* The files a pull request may change, in the order GitHub lists them.
PRFiles ==
    <<[filename |-> "a", marker |-> "", ext |-> ".ts", status |-> "modified",
       patch |-> Some("patch of a")],
      [filename |-> "old", marker |-> "spec.", ext |-> ".js", status |-> "removed",
       patch |-> Some("patch of old")],
      [filename |-> "doc", marker |-> "", ext |-> ".md", status |-> "added",
       patch |-> None],
      [filename |-> "b", marker |-> "", ext |-> ".js", status |-> "modified",
       patch |-> Some("patch of b")]>>

FileIdx == 1..Len(PRFiles)

\* The changed files of the pull request: three of them, or all four.
SmallPR == {f \in FileIdx : PRFiles[f].filename \in {"a", "old", "doc"}}
LargePR == FileIdx

\* The indices in S, ascending, as a sequence.
RECURSIVE Ascending(_)
Ascending(S) ==
    IF S = {} THEN <<>>
    ELSE LET m == CHOOSE x \in S : \A y \in S : x <= y
         IN  <<m>> \o Ascending(S \ {m})

NoWf == [sha |-> 0, pending |-> {}, fetched |-> {}, blank |-> {}, approved |-> FALSE,
         summary |-> "", comments |-> <<>>, sub |-> <<>>, i |-> 0, tsha |-> 0, orig |-> "",
         handed |-> <<>>, context |-> None]

Op(name, path) == [op |-> name, path |-> path]

Reply(status, body) == [status |-> status, body |-> body]

\* The entries of gh that are not calls: "rejected" says that the GitHub
\* call awaited so far rejected, "threw" that something else threw; the path
\* of either names the catch block the throw landed in.
Throws == {"rejected", "threw"}

\* One turn of delivery r's handler: it moves to label, sends the responses
\* in out, issues the collaborator calls gh and the provider calls ai, GitHub
\* shows post, and its locals become w.
Step(r, rq, label, out, gh, ai, post, w) ==
    /\ req' = [req EXCEPT ![r] = rq]
    /\ pc' = [pc EXCEPT ![r] = label]
    /\ resp' = [resp EXCEPT ![r] = @ \o out]
    /\ ghLog' = [ghLog EXCEPT ![r] = @ \o SelectSeq(gh, LAMBDA o : o.op \notin Throws)]
    /\ rejected' = IF \E k \in 1..Len(gh) : gh[k].op = "rejected"
                   THEN rejected \cup {r} ELSE rejected
    /\ caught' = [caught EXCEPT ![r] =
                      @ \cup {gh[k].path : k \in {j \in 1..Len(gh) : gh[j].op \in Throws}}]
    /\ aiLog' = [aiLog EXCEPT ![r] = @ \o ai]
    /\ posted' = [posted EXCEPT ![r] = @ \o post]
    /\ wf' = [wf EXCEPT ![r] = w]
    /\ UNCHANGED <<head, autoTests, listed, svars, lvars, avars, pvars>>

\* webhook.ts:81: the handler's awaits are over; it answers and returns.
Processed(r, post) ==
    Step(r, req[r], "done", <<Reply(200, "Webhook processed")>>, <<>>, <<>>, post, NoWf)

RejectedUncaught(r, site) ==
    Step(r, req[r], "done", <<Reply(500, "Error processing webhook")>>,
         <<Op("rejected", "webhook.ts:82")>>, <<>>, <<>>, NoWf)

\* An awaited GitHub call rejected and the throw is caught by the catch
\* block at site (webhook.ts:154, 222), which ends the handling.
Rejected(r, site) ==
    Step(r, req[r], "done", <<Reply(200, "Webhook processed")>>,
         <<Op("rejected", site)>>, <<>>, <<>>, NoWf)

\* The handler suspends at an awaited call.
Await(r, label, gh, ai, post, w) ==
    Step(r, req[r], label, <<>>, gh, ai, post, w)

TriggersAndClosed == {"opened", "synchronize", "reopened", "closed"}

\* webhook.ts:130
Triggers == {"opened", "synchronize", "reopened"}

HandlePingFallsThrough(r, rq) ==
    IF ~VerifySignature(rq.sig, rq.raw).value
    THEN Step(r, rq, "done", <<Reply(401, "Invalid signature")>>, <<>>, <<>>, <<>>, wf[r])
    ELSE LET body == Val(rq.raw) IN
      IF rq.event = "ping"
      THEN Step(r, rq, "done", <<Reply(200, "pong"), Reply(200, "Webhook processed")>>,
                <<>>, <<>>, <<>>, wf[r])
      ELSE IF rq.event = "pull_request" /\ PayloadAction(body) \in Triggers
      THEN IF ~HasRepository(body)
           THEN Step(r, rq, "done", <<Reply(500, "Error processing webhook")>>,
                     <<Op("threw", "webhook.ts:82")>>, <<>>, <<>>, wf[r])
           ELSE Step(r, rq, "rv_getPR", <<>>, <<Op("getPullRequest", "")>>,
                     <<>>, <<>>, wf[r])
      ELSE IF /\ rq.event = "pull_request_review_comment"
              /\ HasComment(body) /\ PayloadAction(body) = "created"
      THEN IF ~HasRepository(body)
           THEN Step(r, rq, "done", <<Reply(200, "Webhook processed")>>,
                     <<Op("threw", "webhook.ts:282")>>, <<>>, <<>>, wf[r])
           ELSE Step(r, rq, "cr_getComments", <<>>, <<Op("getReviewComments", "")>>,
                     <<>>, <<>>, wf[r])
      ELSE Step(r, rq, "done", <<Reply(200, "Webhook processed")>>, <<>>, <<>>, <<>>, wf[r])

\* webhook.ts:53-87, to the first await that suspends: the POST handler on
\* request rq.
Handle(r, rq) ==
    IF ~VerifySignature(rq.sig, rq.raw).value
    THEN Step(r, rq, "done", <<Reply(401, "Invalid signature")>>, <<>>, <<>>, <<>>, wf[r])
    ELSE LET body == Val(rq.raw) IN
      IF rq.event = "ping"
      THEN Step(r, rq, "done", <<Reply(200, "pong")>>, <<>>, <<>>, <<>>, wf[r])
      ELSE IF rq.event = "pull_request" /\ PayloadAction(body) \in Triggers
      THEN IF ~HasRepository(body)
           \* the destructuring at webhook.ts:131 throws outside the try
           THEN Step(r, rq, "done", <<Reply(500, "Error processing webhook")>>,
                     <<Op("threw", "webhook.ts:82")>>, <<>>, <<>>, wf[r])
           ELSE Step(r, rq, "rv_getPR", <<>>, <<Op("getPullRequest", "")>>,
                     <<>>, <<>>, wf[r])
      ELSE IF /\ rq.event = "pull_request_review_comment"
              /\ HasComment(body) /\ PayloadAction(body) = "created"
      THEN IF ~HasRepository(body)
           \* the destructuring at webhook.ts:252 throws inside the try
           THEN Step(r, rq, "done", <<Reply(200, "Webhook processed")>>,
                     <<Op("threw", "webhook.ts:282")>>, <<>>, <<>>, wf[r])
           ELSE Step(r, rq, "cr_getComments", <<>>, <<Op("getReviewComments", "")>>,
                     <<>>, <<>>, wf[r])
      \* every other event or action
      ELSE Step(r, rq, "done", <<Reply(200, "Webhook processed")>>, <<>>, <<>>, <<>>, wf[r])

Delivered == {q \in Req : pc[q] # "new"}

\* A POST arrives.  A delivery GitHub repeats (same x-github-delivery) has
\* the event and body of the first.
Deliver(r) ==
    /\ pc[r] = "new"
    /\ \A q \in Req : q < r => pc[q] # "new"
    /\ \E c \in Contents, g \in 1..r :
         /\ g <= 1 + Cardinality({req[q].guid : q \in Delivered})
         /\ \A q \in Delivered :
              req[q].guid = g => req[q].event = c.event /\ req[q].raw \in {None, Some(c.raw)}
         /\ \E raw \in {None, Some(c.raw)} :
            \E sig \in {None, Some(SignedBy(Secret, c.raw)), Some(SignedBy(WrongSecret, c.raw))} :
              Handle(r, [event |-> c.event, sig |-> sig, raw |-> raw, guid |-> g])

\* Someone pushes to the pull request: its head commit changes.
NewPush ==
    /\ head < MaxPush
    /\ head' = head + 1
    /\ UNCHANGED <<req, pc, resp, ghLog, rejected, caught, aiLog, posted, wf, autoTests,
                   listed, svars, lvars, avars, pvars>>

(***************************************************************************)
(* CodeReviewerService.reviewPullRequest, awaited by handlePullRequestEvent *)
(***************************************************************************)

\* reviewer.ts:17 resolves or rejects.  A rejection leaves reviewPullRequest
\* and is caught at webhook.ts:154.
RvGotPR(r) ==
    /\ pc[r] = "rv_getPR"
    /\ \E ok \in BOOLEAN :
         IF ok
         THEN Await(r, "rv_getFiles", <<Op("getPullRequestFiles", "")>>, <<>>, <<>>,
                    [wf[r] EXCEPT !.sha = head])
         ELSE Rejected(r, "webhook.ts:154")

ReviewFilesWithEmpty(w) == Ascending(w.fetched \cup w.blank)

\* reviewer.ts:43-49 and 73-79: the files fetched without error and with content
ReviewFiles(w) == Ascending(w.fetched)

\* What getFileContent resolved with for file f, when not with ''.
ContentOf(f) == <<"content of", PRFiles[f].filename>>

\* reviewer.ts:45-49: reviewFiles, the argument of the provider's review
Handed(w) ==
    [k \in 1..Len(ReviewFiles(w)) |->
        [filename |-> PRFiles[ReviewFiles(w)[k]].filename,
         content |-> ContentOf(ReviewFiles(w)[k]),
         patch |-> PRFiles[ReviewFiles(w)[k]].patch]]

FallbackCommentsFirstOnly(w) ==
    [k \in 1..(IF ReviewFiles(w) = <<>> THEN 0 ELSE 1) |->
        [path |-> PRFiles[ReviewFiles(w)[k]].filename, body |-> "Reviewed file",
         position |-> Some(1)]]

\* reviewer.ts:73-85: the review returned when the provider's review throws
FallbackComments(w) ==
    [k \in 1..Len(ReviewFiles(w)) |->
        [path |-> PRFiles[ReviewFiles(w)[k]].filename, body |-> "Reviewed file",
         position |-> Some(1)]]

\* reviewPullRequest returns the review (reviewer.ts:53-57, 63-68, 81-85) and
\* its locals are gone; submitReview is called (webhook.ts:147) and suspends
\* at reviewer.ts:95.
SubmitStart(r, w, gh, summary, approved, comments) ==
    Await(r, "sb_getPR", gh \o <<Op("getPullRequest", "")>>, <<>>, <<>>,
          [w EXCEPT !.pending = {}, !.fetched = {}, !.blank = {}, !.handed = <<>>,
                    !.summary = summary, !.approved = approved, !.comments = comments])

AfterFetchAlwaysAsks(r, w, gh) ==
    Await(r, "rv_ai", gh, <<"reviewPullRequest">>, <<>>, w)

\* reviewer.ts:42-61, once Promise.all has every file's outcome
AfterFetch(r, w, gh) ==
    IF ReviewFiles(w) = <<>>
    THEN SubmitStart(r, w, gh, "No reviewable files found", FALSE, <<>>)
    ELSE Await(r, "rv_ai", gh, <<"reviewPullRequest">>, <<>>, [w EXCEPT !.handed = Handed(w)])

\* reviewer.ts:18 resolves or rejects; on a list, every fetch is issued at once.
RvGotFiles(r) ==
    /\ pc[r] = "rv_getFiles"
    /\ \E ok \in BOOLEAN :
         IF ok
         THEN LET kept == {f \in listed : PRFiles[f].status # "removed"}
                  w == [wf[r] EXCEPT !.pending = kept]
              IN  IF kept = {}
                  THEN AfterFetch(r, w, <<>>)
                  ELSE Await(r, "rv_fetch",
                             [k \in 1..Cardinality(kept) |->
                                 Op("getFileContent", PRFiles[Ascending(kept)[k]].filename)],
                             <<>>, <<>>, w)
         ELSE Rejected(r, "webhook.ts:154")

RvFetchedFirstSettles(r) ==
    /\ pc[r] = "rv_fetch"
    /\ \E f \in wf[r].pending, res \in {"content", "empty", "error"} :
         LET w == [wf[r] EXCEPT !.pending = @ \ {f},
                                !.fetched = IF res = "content" THEN @ \cup {f} ELSE @,
                                !.blank = IF res = "empty" THEN @ \cup {f} ELSE @]
             gh == IF res = "error" THEN <<Op("rejected", "reviewer.ts:34")>> ELSE <<>>
         IN  AfterFetch(r, w, gh)

\* One getFileContent of reviewer.ts:27 settles: with content, with empty
\* content, or with an error (caught at reviewer.ts:34).
RvFetched(r) ==
    /\ pc[r] = "rv_fetch"
    /\ \E f \in wf[r].pending, res \in {"content", "empty", "error"} :
         LET w == [wf[r] EXCEPT !.pending = @ \ {f},
                                !.fetched = IF res = "content" THEN @ \cup {f} ELSE @,
                                !.blank = IF res = "empty" THEN @ \cup {f} ELSE @]
             gh == IF res = "error" THEN <<Op("rejected", "reviewer.ts:34")>> ELSE <<>>
         IN  IF w.pending = {}
             THEN AfterFetch(r, w, gh)
             ELSE Await(r, "rv_fetch", gh, <<>>, <<>>, w)

\* What the provider's review may contain: no comments, or comments without
\* a position, with one, and with position 0.
ReviewComments ==
    {<<>>, <<[path |-> "a", body |-> "b1", position |-> None],
             [path |-> "a", body |-> "b2", position |-> Some(3)],
             [path |-> "doc", body |-> "b3", position |-> Some(0)]>>}

\* The provider's reviewPullRequest (reviewer.ts:61) throws, returns a
\* CodeReview, or returns JSON without a comments array, on which
\* webhook.ts:144 throws into the catch at webhook.ts:154.
RvAiDone(r) ==
    /\ pc[r] = "rv_ai"
    /\ \E out \in {"throws", "review", "noComments"} :
         IF out = "throws"
         THEN SubmitStart(r, wf[r], <<Op("threw", "reviewer.ts:69")>>, "AI review failed",
                          FALSE, FallbackComments(wf[r]))
         ELSE IF out = "review"
         THEN \E a \in BOOLEAN, cs \in ReviewComments :
                 SubmitStart(r, wf[r], <<>>, "Reviewed", a, cs)
         ELSE Step(r, req[r], "done", <<Reply(200, "Webhook processed")>>,
                   <<Op("threw", "webhook.ts:154")>>, <<>>, <<>>, NoWf)

(***************************************************************************)
(* CodeReviewerService.submitReview                                        *)
(***************************************************************************)

\* reviewer.ts:104
ReviewEvent(approved) == IF approved THEN "APPROVE" ELSE "COMMENT"

\* reviewer.ts:105-109
SubmitComments(comments) ==
    [k \in 1..Len(comments) |->
        [path |-> comments[k].path, body |-> comments[k].body,
         position |-> IF comments[k].position = None \/ Val(comments[k].position) = 0
                      THEN 1 ELSE Val(comments[k].position)]]

Created(what, sha, event, comments) ==
    [what |-> what, sha |-> sha, event |-> event, comments |-> comments,
     inReplyTo |-> None]

\* reviewer.ts:95 resolves or rejects; createReview is issued with the head
\* commit it returned.
SbGotPR(r) ==
    /\ pc[r] = "sb_getPR"
    /\ \E ok \in BOOLEAN :
         IF ok
         THEN Await(r, "sb_create", <<Op("createReview", "")>>, <<>>, <<>>,
                    [wf[r] EXCEPT !.sub = <<Created("review", head,
                                                     ReviewEvent(wf[r].approved),
                                                     SubmitComments(wf[r].comments))>>])
         ELSE Rejected(r, "webhook.ts:154")

\* webhook.ts:151
TestsWanted == autoTests

SbCreatedTestsRegardless(r) ==
    /\ pc[r] = "sb_create"
    /\ \E ok \in BOOLEAN :
         IF TestsWanted
         THEN Await(r, "tg_getPR",
                    IF ok THEN <<Op("getPullRequest", "")>>
                    ELSE <<Op("rejected", "webhook.ts:154"), Op("getPullRequest", "")>>,
                    <<>>, IF ok THEN wf[r].sub ELSE <<>>, wf[r])
         ELSE IF ok THEN Processed(r, wf[r].sub) ELSE Rejected(r, "webhook.ts:154")

\* reviewer.ts:98 resolves or rejects; webhook.ts:150-153 follows.
SbCreated(r) ==
    /\ pc[r] = "sb_create"
    /\ \E ok \in BOOLEAN :
         IF ok
         THEN IF TestsWanted
              THEN Await(r, "tg_getPR", <<Op("getPullRequest", "")>>, <<>>, wf[r].sub, wf[r])
              ELSE Processed(r, wf[r].sub)
         ELSE Rejected(r, "webhook.ts:154")

(***************************************************************************)
(* WebhookService.generateTestsForPR                                       *)
(***************************************************************************)

IsCodeFileAnyExtension(file) == file.marker \notin {"test.", "spec."}

\* webhook.ts:176-181
IsCodeFile(file) ==
    /\ file.marker \notin {"test.", "spec."}
    /\ file.ext \in {".ts", ".js"}

CodeFiles == Ascending({f \in listed : IsCodeFile(PRFiles[f])})

TestFileStopOnFailure(r, k, gh, post) ==
    IF k <= Len(CodeFiles) /\ \A j \in 1..Len(gh) : gh[j].op \notin Throws
    THEN Await(r, "tg_content",
               gh \o <<Op("getFileContent", PRFiles[CodeFiles[k]].filename)>>,
               <<>>, post, [wf[r] EXCEPT !.i = k])
    ELSE Step(r, req[r], "done", <<Reply(200, "Webhook processed")>>, gh, <<>>, post, NoWf)

\* webhook.ts:183-186 for the k-th code file, or the end of the loop
TestFile(r, k, gh, post) ==
    IF k <= Len(CodeFiles)
    THEN Await(r, "tg_content",
               gh \o <<Op("getFileContent", PRFiles[CodeFiles[k]].filename)>>,
               <<>>, post, [wf[r] EXCEPT !.i = k])
    ELSE Step(r, req[r], "done", <<Reply(200, "Webhook processed")>>, gh, <<>>, post, NoWf)

\* webhook.ts:168 resolves or rejects (caught at webhook.ts:222).
TgGotPR(r) ==
    /\ pc[r] = "tg_getPR"
    /\ \E ok \in BOOLEAN :
         IF ok
         THEN Await(r, "tg_getFiles", <<Op("getPullRequestFiles", "")>>, <<>>, <<>>,
                    [wf[r] EXCEPT !.tsha = head])
         ELSE Rejected(r, "webhook.ts:222")

\* webhook.ts:169 resolves or rejects.
TgGotFiles(r) ==
    /\ pc[r] = "tg_getFiles"
    /\ \E ok \in BOOLEAN :
         IF ok THEN TestFile(r, 1, <<>>, <<>>) ELSE Rejected(r, "webhook.ts:222")

\* reviewer.ts:124 resolves or rejects (rethrown at reviewer.ts:130, caught
\* at webhook.ts:218).
TgContent(r) ==
    /\ pc[r] = "tg_content"
    /\ \E ok \in BOOLEAN :
         IF ok
         THEN Await(r, "tg_ai", <<>>, <<"generateTests">>, <<>>, wf[r])
         ELSE TestFile(r, wf[r].i + 1,
                       <<Op("rejected", "reviewer.ts:128"), Op("threw", "webhook.ts:218")>>, <<>>)

\* reviewer.ts:127 resolves or rejects.
TgAiDone(r) ==
    /\ pc[r] = "tg_ai"
    /\ \E ok \in BOOLEAN :
         IF ok
         THEN Await(r, "tg_post", <<Op("createReview", PRFiles[CodeFiles[wf[r].i]].filename)>>,
                    <<>>, <<>>, wf[r])
         ELSE TestFile(r, wf[r].i + 1,
                       <<Op("threw", "reviewer.ts:128"), Op("threw", "webhook.ts:218")>>, <<>>)

\* webhook.ts:201 resolves or rejects.
TgPosted(r) ==
    /\ pc[r] = "tg_post"
    /\ \E ok \in BOOLEAN :
         TestFile(r, wf[r].i + 1,
                  IF ok THEN <<>> ELSE <<Op("rejected", "webhook.ts:218")>>,
                  IF ok
                  THEN <<Created("tests", wf[r].tsha, "COMMENT",
                                 <<[path |-> PRFiles[CodeFiles[wf[r].i]].filename,
                                    body |-> "Generated tests", position |-> 1]>>)>>
                  ELSE <<>>)

(***************************************************************************)
(* CodeReviewerService.handleCommentResponse; every throw in it is caught   *)
(* at reviewer.ts:196.                                                     *)
(***************************************************************************)

\* The author of the comment that in_reply_to_id names among the comments
\* getReviewComments returned: the bot, another user, a comment without a
\* user; or no such comment.
Originals == {"missing", "other", "nouser", "bot"}

IsBotCommentAnyone(author) == TRUE

\* github.ts:126-128, comment.user?.login === this.botUsername, with the
\* botUsername that index.ts:38 configures
IsBotComment(author) == author = "bot"

CommentFailedRethrown(r, kind) ==
    Step(r, req[r], "done", <<Reply(200, "Webhook processed")>>,
         <<Op(kind, "webhook.ts:282")>>, <<>>, <<>>, NoWf)

\* reviewer.ts:196-198: the catch of handleCommentResponse logs the throw
\* and the method returns; the handler then answers (webhook.ts:81).
CommentFailed(r, kind) ==
    Step(r, req[r], "done", <<Reply(200, "Webhook processed")>>,
         <<Op(kind, "reviewer.ts:196")>>, <<>>, <<>>, NoWf)

\* reviewer.ts:145 resolves or rejects; reviewer.ts:148-159 follow.
CrGotComments(r) ==
    /\ pc[r] = "cr_getComments"
    /\ \E res \in {"rejects"} \cup Originals :
         IF res = "rejects" THEN CommentFailed(r, "rejected")
         ELSE IF InReplyTo(Val(req[r].raw)) = None THEN Processed(r, <<>>)
         ELSE IF res = "missing" \/ ~IsBotComment(res) THEN Processed(r, <<>>)
         ELSE Await(r, "cr_context", <<Op("getReviewComments", "")>>, <<>>, <<>>,
                    [wf[r] EXCEPT !.orig = res])

\* reviewer.ts:166 resolves with or without a comment that matches and has
\* a path, or rejects (caught at reviewer.ts:181).
CrContext(r) ==
    /\ pc[r] = "cr_context"
    /\ \E res \in {"rejects", "nomatch", "match"} :
         IF res = "match"
         THEN Await(r, "cr_file", <<Op("getFileContent", "a")>>, <<>>, <<>>, wf[r])
         ELSE Await(r, "cr_ai",
                    IF res = "rejects" THEN <<Op("rejected", "reviewer.ts:181")>> ELSE <<>>,
                    <<"respondToComment">>, <<>>, wf[r])

CrFileFailureEndsResponse(r) ==
    /\ pc[r] = "cr_file"
    /\ \E ok \in BOOLEAN :
         IF ok
         THEN Await(r, "cr_ai", <<>>, <<"respondToComment">>, <<>>,
                    [wf[r] EXCEPT !.context = Some("content of a")])
         ELSE CommentFailed(r, "rejected")

\* reviewer.ts:173 resolves, and codeContext becomes the file's content, or
\* rejects (caught at reviewer.ts:181), and codeContext stays undefined;
\* reviewer.ts:186 passes codeContext to the provider.
CrFile(r) ==
    /\ pc[r] = "cr_file"
    /\ \E ok \in BOOLEAN :
         Await(r, "cr_ai", IF ok THEN <<>> ELSE <<Op("rejected", "reviewer.ts:181")>>,
               <<"respondToComment">>, <<>>,
               [wf[r] EXCEPT !.context = IF ok THEN Some("content of a") ELSE None])

\* reviewer.ts:186 resolves or rejects; reviewer.ts:189 throws on a comment
\* without an id.
CrAiDone(r) ==
    /\ pc[r] = "cr_ai"
    /\ \E ok \in BOOLEAN :
         IF ok /\ CommentId(Val(req[r].raw)) # None
         THEN Await(r, "cr_reply", <<Op("createReplyComment", "")>>, <<>>, <<>>, wf[r])
         ELSE CommentFailed(r, "threw")

\* The reply that createReplyForReviewComment (github.ts createReplyComment)
\* creates under the review comment id.
ReplyComment(id) == [Created("reply", 0, "", <<>>) EXCEPT !.inReplyTo = Some(id)]

\* reviewer.ts:193 resolves or rejects.
CrReplied(r) ==
    /\ pc[r] = "cr_reply"
    /\ \E ok \in BOOLEAN :
         IF ok THEN Processed(r, <<ReplyComment(Val(CommentId(Val(req[r].raw))))>>)
         ELSE CommentFailed(r, "rejected")

(***************************************************************************)
(* Provider capability: generateResponse of ClaudeService, ChatGPTService  *)
(* and GeminiService, and the ledger this.requests they append to.         *)
(***************************************************************************)

\* generateResponse calls in one run, and ticks of the clock during it.
MaxCalls == 2
MaxTime == 1

Calls == 1..MaxCalls

Variants == {"Claude", "ChatGPT", "Gemini"}

\* config.model, config.maxTokens and config.pricing of the instance: two
\* priced models, and "m3" that the table has no entry for.
DefaultModel == "m1"
DefaultMaxTokens == 1000
Pricing ==
    [m \in {"m1", "m2"} |->
        IF m = "m1" THEN [inputCostPer1kTokens |-> 3, outputCostPer1kTokens |-> 15]
                    ELSE [inputCostPer1kTokens |-> 1, outputCostPer1kTokens |-> 2]]

\* The options a caller may pass: a model and a token limit, each optional.
CallerOptions ==
    {[model |-> None, maxTokens |-> None], [model |-> Some("m2"), maxTokens |-> None],
     [model |-> Some("m3"), maxTokens |-> Some(500)]}

\* { ...defaultOptions, ...options } of claude.ts:36 and chatgpt.ts:37;
\* gemini.ts:33-38 and 61-65 read the model and the token limit from
\* this.config alone.
MergedOptions(v, options) ==
    IF v = "Gemini"
    THEN [model |-> Some(DefaultModel), maxTokens |-> Some(DefaultMaxTokens)]
    ELSE [model |-> IF options.model # None THEN options.model ELSE Some(DefaultModel),
          maxTokens |-> IF options.maxTokens # None THEN options.maxTokens
                        ELSE Some(DefaultMaxTokens)]

\* What the vendor's API is called with: claude.ts:43, chatgpt.ts:44,
\* gemini.ts:51-55.
SentOptions(v, options) == MergedOptions(v, options)

\* What the vendor may answer.  usage is absent or carries both counts; on
\* Gemini's usageMetadata either count may be missing.
Usages(v) ==
    {None, Some([prompt |-> Some(1), completion |-> Some(2)])}
        \cup (IF v = "Gemini" THEN {Some([prompt |-> None, completion |-> Some(2)])} ELSE {})

\* The content of a resolved response: text, empty text, or no text at all
\* (no choices, a null message content, a block that is not text, a text()
\* that throws).
Contents3 == {"text", "empty", "none"}

\* usage.prompt_tokens, usage.input_tokens; promptTokenCount || 0
InputTokens(u) == IF u.prompt = None THEN 0 ELSE Val(u.prompt)
OutputTokens(u) == IF u.completion = None THEN 0 ELSE Val(u.completion)

TotalTokensTwice(u) == InputTokens(u) + InputTokens(u)

\* claude.ts:64, chatgpt.ts:65, gemini.ts:82
TotalTokens(u) == InputTokens(u) + OutputTokens(u)

PricingEntryOrDefault(model) ==
    IF model \in DOMAIN Pricing THEN Some(Pricing[model]) ELSE Some(Pricing[DefaultModel])

\* this.config.pricing && this.config.pricing[model]
PricingEntry(model) ==
    IF model \in DOMAIN Pricing THEN Some(Pricing[model]) ELSE None

PricedModelDefault(merged) == DefaultModel

\* The model whose rates are looked up: mergedOptions.model (claude.ts:68,
\* chatgpt.ts:69), modelName (gemini.ts:87).
PricedModel(merged) == Val(merged.model)

\* claude.ts:70-74, chatgpt.ts:71-75, gemini.ts:89-91.  Costs are kept
\* exactly, as 1000 times the amount: tokens * rate per 1k tokens.
Cost(u, pricing) ==
    InputTokens(u) * pricing.inputCostPer1kTokens
        + OutputTokens(u) * pricing.outputCostPer1kTokens

SuccessRecordAtSharedStart(c, v, cl, usage, t) ==
    LET merged == MergedOptions(v, cl.options)
        entry == PricingEntry(PricedModel(merged))
        latest == CHOOSE d \in Calls :
                      /\ call[d].pc # "idle"
                      /\ \A e \in Calls : call[e].pc # "idle" => e <= d
        started == call[latest].requestTime
    IN  [call |-> c, timestamp |-> started, options |-> merged,
         latency |-> t - started, success |-> TRUE, error |-> None,
         inputTokens |-> IF usage = None THEN None ELSE Some(InputTokens(Val(usage))),
         outputTokens |-> IF usage = None THEN None ELSE Some(OutputTokens(Val(usage))),
         totalTokens |-> IF usage = None THEN None ELSE Some(TotalTokens(Val(usage))),
         cost |-> IF usage = None \/ entry = None THEN None
                  ELSE Some(Cost(Val(usage), Val(entry)))]

\* The record pushed after the vendor answered (claude.ts:49-78,
\* chatgpt.ts:50-79, gemini.ts:68-95).
SuccessRecordAt(c, v, cl, usage, t) ==
    LET merged == MergedOptions(v, cl.options)
        entry == PricingEntry(PricedModel(merged))
    IN  [call |-> c, timestamp |-> cl.requestTime, options |-> merged,
         latency |-> t - cl.requestTime, success |-> TRUE, error |-> None,
         inputTokens |-> IF usage = None THEN None ELSE Some(InputTokens(Val(usage))),
         outputTokens |-> IF usage = None THEN None ELSE Some(OutputTokens(Val(usage))),
         totalTokens |-> IF usage = None THEN None ELSE Some(TotalTokens(Val(usage))),
         cost |-> IF usage = None \/ entry = None THEN None
                  ELSE Some(Cost(Val(usage), Val(entry)))]

SuccessRecord(c, v, cl, usage) == SuccessRecordAt(c, v, cl, usage, now)

\* The record pushed by the catch block (claude.ts:99-108, chatgpt.ts:106-115,
\* gemini.ts:110-119): it keeps the caller's options as passed.
FailureRecordAt(c, cl, error, t) ==
    [call |-> c, timestamp |-> cl.requestTime, options |-> cl.options,
     latency |-> t - cl.requestTime, success |-> FALSE, error |-> Some(error),
     inputTokens |-> None, outputTokens |-> None, totalTokens |-> None, cost |-> None]

FailureRecord(c, cl, error) == FailureRecordAt(c, cl, error, now)

\* The text the variant finds in a resolved response, if it finds one:
\* claude.ts:83-92 takes any text block, chatgpt.ts:84-98 needs a non-empty
\* message content, gemini.ts:99 takes whatever text() returns.
ExtractedText(v, content) ==
    IF content = "text" THEN Some("text")
    ELSE IF content = "empty" /\ v # "ChatGPT" THEN Some("")
    ELSE None

\* claude.ts:93, chatgpt.ts:100; on Gemini the error text() throws
FormatError(v) ==
    IF v = "Gemini" THEN "text() failed" ELSE "Unexpected response format"

NoCall == [pc |-> "idle", options |-> [model |-> None, maxTokens |-> None],
           requestTime |-> 0, sent |-> None, content |-> "", result |-> None,
           stale |-> FALSE]

ApiResponse(success, content, error) ==
    [success |-> success, content |-> content, error |-> error]

\* generateResponse(prompt, options) up to its await of the vendor's call.
Start(c) ==
    /\ call[c].pc = "idle"
    /\ \A d \in Calls : d < c => call[d].pc # "idle"
    /\ \E options \in CallerOptions :
         call' = [call EXCEPT ![c] = [@ EXCEPT !.pc = "awaiting",
                                               !.options = options,
                                               !.requestTime = now,
                                               !.sent = Some(SentOptions(variant, options))]]
    /\ ret' = None
    /\ UNCHANGED <<variant, requests, now, svars, wvars, pvars>>

\* The vendor's call rejects: the catch block records the failure and
\* generateResponse returns.
Reject(c) ==
    /\ call[c].pc = "awaiting"
    /\ requests' = Append(requests, FailureRecord(c, call[c], "API Failure"))
    /\ call' = [call EXCEPT ![c] = [@ EXCEPT !.pc = "done",
                                             !.result = Some(ApiResponse(FALSE, "", Some("API Failure")))]]
    /\ ret' = None
    /\ UNCHANGED <<variant, now, svars, wvars, pvars>>

\* The vendor's call resolves: the record is pushed and generateResponse
\* awaits logRequest.
Resolve(c) ==
    /\ call[c].pc = "awaiting"
    /\ \E usage \in Usages(variant), content \in Contents3 :
         /\ requests' = Append(requests, SuccessRecord(c, variant, call[c], usage))
         /\ call' = [call EXCEPT ![c] = [@ EXCEPT !.pc = "logged", !.content = content]]
    /\ ret' = None
    /\ UNCHANGED <<variant, now, svars, wvars, pvars>>

\* After logRequest: the text is returned, or the throw that follows a
\* response without text lands in the catch block, which records a failure.
Finish(c) ==
    /\ call[c].pc = "logged"
    /\ LET text == ExtractedText(variant, call[c].content) IN
         IF text # None
         THEN /\ call' = [call EXCEPT ![c] = [@ EXCEPT !.pc = "done",
                                !.result = Some(ApiResponse(TRUE, Val(text), None))]]
              /\ UNCHANGED requests
         ELSE /\ requests' = Append(requests, FailureRecord(c, call[c], FormatError(variant)))
              /\ call' = [call EXCEPT ![c] = [@ EXCEPT !.pc = "done",
                                !.result = Some(ApiResponse(FALSE, "", Some(FormatError(variant))))]]
    /\ ret' = None
    /\ UNCHANGED <<variant, now, svars, wvars, pvars>>

ClearRequestsSuccessfulOnly ==
    /\ requests' = SelectSeq(requests, LAMBDA r : ~r.success)
    /\ call' = [c \in Calls |-> IF call[c].pc = "idle" THEN call[c]
                                ELSE [call[c] EXCEPT !.stale = TRUE]]
    /\ ret' = None
    /\ UNCHANGED <<variant, now, svars, wvars, pvars>>

\* provider_service.ts clearRequests(); calls begun before it are marked.
ClearRequests ==
    /\ requests' = <<>>
    /\ call' = [c \in Calls |-> IF call[c].pc = "idle" THEN call[c]
                                ELSE [call[c] EXCEPT !.stale = TRUE]]
    /\ ret' = None
    /\ UNCHANGED <<variant, now, svars, wvars, pvars>>

\* Time passes.
Tick ==
    /\ now < MaxTime
    /\ now' = now + 1
    /\ ret' = None
    /\ UNCHANGED <<variant, requests, call, svars, wvars, pvars>>

(***************************************************************************)
(* The ledger's queries (provider_service.ts): getRequests,                *)
(* getUsageAnalytics and getCostBreakdown.                                 *)
(***************************************************************************)

\* The Date arguments a caller may pass, each optional.
Dates == 0..MaxTime
DateArgs == {None} \cup {Some(d) : d \in Dates}

AfterStartExclusive(r, startDate) == startDate = None \/ r.timestamp > Val(startDate)

\* if (startDate) filter(r => r.timestamp >= startDate)
AfterStart(r, startDate) == startDate = None \/ r.timestamp >= Val(startDate)

BeforeEndExclusive(r, endDate) == endDate = None \/ r.timestamp < Val(endDate)

\* if (endDate) filter(r => r.timestamp <= endDate)
BeforeEnd(r, endDate) == endDate = None \/ r.timestamp <= Val(endDate)

\* filteredRequests: the two filters applied in turn to this.requests
FilteredRequests(reqs, startDate, endDate) ==
    LET started == SelectSeq(reqs, LAMBDA r : AfterStart(r, startDate))
    IN  SelectSeq(started, LAMBDA r : BeforeEnd(r, endDate))

\* (request.options.model as string) || 'unknown'
ModelOf(r) == IF r.options.model = None THEN "unknown" ELSE Val(r.options.model)

\* x || 0 of an optional number
OrZero(o) == IF o = None THEN 0 ELSE Val(o)

\* reqs.reduce((sum, r) => sum + f(r), 0), given the f(r) in order as nums
RECURSIVE Sum(_)
Sum(nums) ==
    IF nums = <<>> THEN 0 ELSE Sum(SubSeq(nums, 1, Len(nums) - 1)) + nums[Len(nums)]

\* The values of field f of the records, x || 0 applied, in order.
Each(reqs, f) == [i \in 1..Len(reqs) |-> OrZero(reqs[i][f])]

\* A quotient a / b, b > 0, kept exactly as a fraction in lowest terms.
RECURSIVE Gcd(_, _)
Gcd(a, b) == IF b = 0 THEN a ELSE Gcd(b, a % b)
Ratio(a, b) == LET g == Gcd(a, b) IN [num |-> a \div g, den |-> b \div g]

\* filteredRequests.length > 0 ? totalLatency / filteredRequests.length : 0
AverageLatency(totalLatency, n) == IF n > 0 THEN Ratio(totalLatency, n) ELSE Ratio(0, 1)

\* requestsByModel: the count of each model name that occurs
RequestsByModel(reqs) ==
    [m \in {ModelOf(reqs[i]) : i \in 1..Len(reqs)} |->
        Cardinality({i \in 1..Len(reqs) : ModelOf(reqs[i]) = m})]

\* getUsageAnalytics(startDate, endDate) over the ledger reqs
UsageAnalytics(reqs, startDate, endDate) ==
    LET filtered == FilteredRequests(reqs, startDate, endDate)
        successful == SelectSeq(filtered, LAMBDA r : r.success)
        totalLatency == Sum([i \in 1..Len(filtered) |-> filtered[i].latency])
    IN  [totalRequests |-> Len(filtered),
         successfulRequests |-> Len(successful),
         failedRequests |-> Len(filtered) - Len(successful),
         totalTokens |-> Sum(Each(filtered, "totalTokens")),
         inputTokens |-> Sum(Each(filtered, "inputTokens")),
         outputTokens |-> Sum(Each(filtered, "outputTokens")),
         totalCost |-> Sum(Each(filtered, "cost")),
         averageLatency |-> AverageLatency(totalLatency, Len(filtered)),
         requestsByModel |-> RequestsByModel(filtered)]

BreakdownEntryInputOnly(reqs, m) ==
    LET mine == SelectSeq(reqs, LAMBDA r : ModelOf(r) = m)
    IN  [requests |-> Len(mine), tokens |-> Sum(Each(mine, "inputTokens")),
         cost |-> Sum(Each(mine, "cost"))]

\* breakdown[model] once the forEach of getCostBreakdown has run
BreakdownEntry(reqs, m) ==
    LET mine == SelectSeq(reqs, LAMBDA r : ModelOf(r) = m)
    IN  [requests |-> Len(mine), tokens |-> Sum(Each(mine, "totalTokens")),
         cost |-> Sum(Each(mine, "cost"))]

\* getCostBreakdown() over the ledger reqs
CostBreakdown(reqs) ==
    [m \in {ModelOf(reqs[i]) : i \in 1..Len(reqs)} |-> BreakdownEntry(reqs, m)]

Returned(op, startDate, endDate, value) ==
    Some([op |-> op, startDate |-> startDate, endDate |-> endDate, value |-> value])

GetUsageAnalyticsInPlace ==
    /\ \E startDate \in DateArgs, endDate \in DateArgs :
         /\ ret' = Returned("getUsageAnalytics", startDate, endDate,
                            UsageAnalytics(requests, startDate, endDate))
         /\ requests' = FilteredRequests(requests, startDate, endDate)
    /\ UNCHANGED <<variant, call, now, svars, wvars, pvars>>

\* getUsageAnalytics(startDate?, endDate?)
GetUsageAnalytics ==
    /\ \E startDate \in DateArgs, endDate \in DateArgs :
         ret' = Returned("getUsageAnalytics", startDate, endDate,
                         UsageAnalytics(requests, startDate, endDate))
    /\ UNCHANGED <<variant, requests, call, now, svars, wvars, pvars>>

\* getCostBreakdown()
GetCostBreakdown ==
    /\ ret' = Returned("getCostBreakdown", None, None, CostBreakdown(requests))
    /\ UNCHANGED <<variant, requests, call, now, svars, wvars, pvars>>

\* getRequests()
GetRequests ==
    /\ ret' = Returned("getRequests", None, None, requests)
    /\ UNCHANGED <<variant, requests, call, now, svars, wvars, pvars>>


(***************************************************************************)
(* The capability's reviewPullRequest, from the answer of generateResponse *)
(* on: fence stripping (provider_service.ts extractJsonFromMarkdown) and   *)
(* JSON.parse.  A text is the sequence of its pieces: an opening fence     *)
(* ```json, a fence ```, a newline, a blank, the JSON text of a review,    *)
(* or other text without fences and newlines.  "[fence json]" and          *)
(* "[fence]" stand for the two fences.                                     *)
(***************************************************************************)

MaxTextLen == 5

Reviews == {"review1", "review2"}
Pieces == {"[fence json]", "[fence]", "\n", " ", "x"} \cup Reviews
Texts == UNION {[1..n -> Pieces] : n \in 0..MaxTextLen}

\* \s
IsSpace(piece) == piece \in {"\n", " "}

\* The text without its pieces from to upto.
Cut(text, from, upto) == SubSeq(text, 1, from - 1) \o SubSeq(text, upto + 1, Len(text))

\* The whitespace pieces of text that follow position i without a gap.
SpacesAfter(text, i) ==
    Cardinality({k \in (i + 1)..Len(text) : \A j \in (i + 1)..k : IsSpace(text[j])})

SpacesBefore(text, i) ==
    Cardinality({k \in 1..(i - 1) : \A j \in k..(i - 1) : IsSpace(text[j])})

\* replace(/^```json\s*/m, ''): the first ```json that starts a line goes,
\* with the whitespace after it.
StripOpeningFence(text) ==
    LET at == {i \in 1..Len(text) :
                  text[i] = "[fence json]" /\ (i = 1 \/ text[i - 1] = "\n")}
    IN  IF at = {} THEN text
        ELSE LET i == CHOOSE j \in at : \A k \in at : j <= k
             IN  Cut(text, i, i + SpacesAfter(text, i))

\* replace(/\s*```$/m, ''): the first ``` that ends a line goes, with the
\* whitespace before it.
StripClosingFence(text) ==
    LET at == {i \in 1..Len(text) :
                  text[i] = "[fence]" /\ (i = Len(text) \/ text[i + 1] = "\n")}
    IN  IF at = {} THEN text
        ELSE LET i == CHOOSE j \in at : \A k \in at : j <= k
             IN  Cut(text, i - SpacesBefore(text, i), i)

\* provider_service.ts:320-328
ExtractJsonFromMarkdown(markdownString) ==
    IF markdownString = <<>> THEN <<>>
    ELSE StripClosingFence(StripOpeningFence(markdownString))

Thrown(message) == [threw |-> TRUE, message |-> message, review |-> ""]
Parsed(review) == [threw |-> FALSE, message |-> <<>>, review |-> review]

\* JSON.parse(text): whitespace around one JSON value, or a SyntaxError
JsonParse(text) ==
    LET inner == SelectSeq(text, LAMBDA piece : ~IsSpace(piece))
    IN  IF Len(inner) = 1 /\ inner[1] \in Reviews
        THEN Parsed(inner[1])
        ELSE Thrown(<<"Unexpected token">>)

ParseFailureUnwrapped(cause) == Thrown(cause)

\* The catch of chatgpt.ts:214-219, claude.ts:292-297, gemini.ts:213-218
ParseFailure(cause) == Thrown(<<"Failed to parse response as JSON: ">> \o cause)

\* Whether variant v strips the fences before it parses: chatgpt.ts:208
\* does, claude.ts:291 and gemini.ts:212 parse response.content as it is.
StripsFences(v) == v = "ChatGPT"

\* reviewPullRequest(files) of variant v once generateResponse has answered
CapabilityReview(v, response) ==
    IF ~response.success
    THEN Thrown(<<"Failed to generate PR review: ">> \o response.error)
    ELSE LET jsonString == IF StripsFences(v)
                           THEN ExtractJsonFromMarkdown(response.content)
                           ELSE response.content
         IN  IF StripsFences(v) /\ jsonString = <<>>
             THEN ParseFailure(<<"Could not extract JSON from the response">>)
             ELSE IF JsonParse(jsonString).threw
                  THEN ParseFailure(JsonParse(jsonString).message)
                  ELSE JsonParse(jsonString)

\* What generateResponse may answer: a text, or a failure without content
\* whose error is the vendor's or the one thrown on a response without text.
Responses ==
    {ApiResponse(TRUE, text, None) : text \in Texts}
        \cup {ApiResponse(FALSE, <<>>, Some(e)) :
                 e \in {"API Failure", "Unexpected response format"}}

\* The capability's higher-level methods.
Operations == {"reviewPullRequest", "generateTests", "respondToComment"}

\* The text each puts before response.error?.message when it throws
\* (gemini.ts:208, 239, 269; chatgpt.ts:204, 240, 270; claude.ts:287, 318, 348).
OperationPrefix(op) ==
    IF op = "reviewPullRequest" THEN "Failed to generate PR review: "
    ELSE IF op = "generateTests" THEN "Failed to generate tests: "
    ELSE "Failed to generate comment response: "

CapabilityTextNoPrefix(op, response) ==
    IF ~response.success
    THEN Thrown(response.error)
    ELSE [threw |-> FALSE, message |-> <<>>, review |-> response.content]

\* generateTests and respondToComment once generateResponse has answered
\* (gemini.ts:238-242, 268-272 and the same lines of the other variants)
CapabilityText(op, response) ==
    IF ~response.success
    THEN Thrown(<<OperationPrefix(op)>> \o response.error)
    ELSE [threw |-> FALSE, message |-> <<>>, review |-> response.content]

\* A capability method is invoked: it builds its prompt and awaits its
\* generateResponse call (gemini.ts:205, 236, 266).
Invoke(op) ==
    /\ pOp = ""
    /\ pIn # None
    /\ pOp' = op
    /\ pCalls' = pCalls + 1
    /\ UNCHANGED <<pIn, pOut, lvars, avars, svars, wvars>>

\* The capability's reviewPullRequest resumes with the answer pIn.
ReviewPullRequest ==
    /\ pOp = "reviewPullRequest"
    /\ pOut = None
    /\ pOut' = Some(CapabilityReview(variant, Val(pIn)))
    /\ UNCHANGED <<pIn, pOp, pCalls, lvars, avars, svars, wvars>>

\* generateTests or respondToComment resumes with the answer pIn.
ReturnText ==
    /\ pOp \in {"generateTests", "respondToComment"}
    /\ pOut = None
    /\ pOut' = Some(CapabilityText(pOp, Val(pIn)))
    /\ UNCHANGED <<pIn, pOp, pCalls, lvars, avars, svars, wvars>>

(***************************************************************************)
(* The gateway's specification                                             *)
(***************************************************************************)

LedgerIdle ==
    /\ variant = "ChatGPT"
    /\ requests = <<>>
    /\ call = <<>>
    /\ now = 0
    /\ ret = <<>>

ParseIdle == pIn = <<>> /\ pOp = "" /\ pCalls = 0 /\ pOut = <<>>

Init ==
    /\ req = [r \in Req |-> NoReq]
    /\ pc = [r \in Req |-> "new"]
    /\ resp = [r \in Req |-> <<>>]
    /\ ghLog = [r \in Req |-> <<>>]
    /\ rejected = {}
    /\ caught = [r \in Req |-> {}]
    /\ aiLog = [r \in Req |-> <<>>]
    /\ posted = [r \in Req |-> <<>>]
    /\ wf = [r \in Req |-> NoWf]
    /\ head = 0
    /\ autoTests \in BOOLEAN
    /\ listed = SmallPR
    /\ VerifyIdle
    /\ LedgerIdle
    /\ ParseIdle

Next ==
    \E r \in Req :
         \/ Deliver(r)
         \/ RvGotPR(r) \/ RvGotFiles(r) \/ RvFetched(r) \/ RvAiDone(r)
         \/ SbGotPR(r) \/ SbCreated(r)
         \/ TgGotPR(r) \/ TgGotFiles(r) \/ TgContent(r) \/ TgAiDone(r) \/ TgPosted(r)
         \/ CrGotComments(r) \/ CrContext(r) \/ CrFile(r) \/ CrAiDone(r) \/ CrReplied(r)

Spec == Init /\ [][Next]_vars

\* The gateway on one delivery for a pull request of four changed files, two
\* of them code files, with test generation enabled or not.
InitTests ==
    /\ req = [r \in Req |-> NoReq]
    /\ pc = [r \in Req |-> "new"]
    /\ resp = [r \in Req |-> <<>>]
    /\ ghLog = [r \in Req |-> <<>>]
    /\ rejected = {}
    /\ caught = [r \in Req |-> {}]
    /\ aiLog = [r \in Req |-> <<>>]
    /\ posted = [r \in Req |-> <<>>]
    /\ wf = [r \in Req |-> NoWf]
    /\ head = 0
    /\ autoTests \in BOOLEAN
    /\ listed = LargePR
    /\ VerifyIdle
    /\ LedgerIdle
    /\ ParseIdle

NextTests ==
    \E r \in {q \in Req : \A p \in Req : q <= p} :
         \/ Deliver(r)
         \/ RvGotPR(r) \/ RvGotFiles(r) \/ RvFetched(r) \/ RvAiDone(r)
         \/ SbGotPR(r) \/ SbCreated(r)
         \/ TgGotPR(r) \/ TgGotFiles(r) \/ TgContent(r) \/ TgAiDone(r) \/ TgPosted(r)
         \/ CrGotComments(r) \/ CrContext(r) \/ CrFile(r) \/ CrAiDone(r) \/ CrReplied(r)

SpecTests == InitTests /\ [][NextTests]_vars

\* The gateway on one delivery while the pull request is pushed to.
NextPush == NextTests \/ NewPush

SpecPush == InitTests /\ [][NextPush]_vars

\* The specification of the verification check.
GatewayIdle ==
    /\ req = [r \in Req |-> NoReq]
    /\ pc = [r \in Req |-> "new"]
    /\ resp = [r \in Req |-> <<>>]
    /\ ghLog = [r \in Req |-> <<>>]
    /\ rejected = {}
    /\ caught = [r \in Req |-> {}]
    /\ aiLog = [r \in Req |-> <<>>]
    /\ posted = [r \in Req |-> <<>>]
    /\ wf = [r \in Req |-> NoWf]
    /\ head = 0
    /\ autoTests = FALSE
    /\ listed = SmallPR

InitVerify ==
    /\ vHdr \in VerifyHeaders
    /\ vRaw \in VerifyRawBodies
    /\ vOut = None
    /\ GatewayIdle
    /\ LedgerIdle
    /\ ParseIdle

NextVerify == Verify /\ UNCHANGED <<wvars, lvars, avars, pvars>>

SpecVerify == InitVerify /\ [][NextVerify]_vars

\* The specification of the provider capability and its ledger.
InitLedger ==
    /\ variant \in Variants
    /\ requests = <<>>
    /\ call = [c \in Calls |-> NoCall]
    /\ now = 0
    /\ ret = None
    /\ VerifyIdle
    /\ GatewayIdle
    /\ ParseIdle

NextLedger ==
    \/ ClearRequests
    \/ Tick
    \/ \E c \in Calls : Start(c) \/ Reject(c) \/ Resolve(c) \/ Finish(c)

SpecLedger == InitLedger /\ [][NextLedger]_vars

\* The specification of the capability's reviewPullRequest.
InitParse ==
    /\ variant \in Variants
    /\ pIn \in {Some(response) : response \in Responses}
    /\ pOp = ""
    /\ pCalls = 0
    /\ pOut = None
    /\ requests = <<>>
    /\ call = <<>>
    /\ now = 0
    /\ ret = None
    /\ VerifyIdle
    /\ GatewayIdle

NextParse ==
    \/ \E op \in Operations : Invoke(op)
    \/ ReviewPullRequest
    \/ ReturnText

SpecParse == InitParse /\ [][NextParse]_vars

\* The ledger's queries are checked on the ledgers that completed calls
\* leave.  The records a completed call c of variant v has pushed, as Start,
\* then Reject or Resolve and Finish, push them.
CallRecords(c, v) ==
    UNION {
      LET t0 == times[1]
          t1 == times[2]
          begun == [NoCall EXCEPT !.options = options, !.requestTime = t0]
          Resolved(usage, content) ==
            IF ExtractedText(v, content) # None
            THEN <<SuccessRecordAt(c, v, begun, usage, t1)>>
            ELSE <<SuccessRecordAt(c, v, begun, usage, t1),
                   FailureRecordAt(c, begun, FormatError(v), t1)>>
      IN  {<<FailureRecordAt(c, begun, "API Failure", t1)>>}
            \cup {Resolved(usage, content) : usage \in Usages(v), content \in Contents3}
      : options \in CallerOptions, times \in {p \in Dates \X Dates : p[1] <= p[2]} }

RECURSIVE LedgerOf(_)
LedgerOf(pushed) ==
    IF pushed = <<>> THEN <<>>
    ELSE LedgerOf(SubSeq(pushed, 1, Len(pushed) - 1)) \o pushed[Len(pushed)]

\* n calls have returned, one after the other; their locals are gone.
InitAnalytics ==
    /\ variant \in Variants
    /\ \E n \in 0..MaxCalls :
         \E pushed \in [1..n -> CallRecords(1, variant)] :
           /\ call = [c \in Calls |-> IF c <= n THEN [NoCall EXCEPT !.pc = "done"]
                                      ELSE NoCall]
           /\ requests = LedgerOf([c \in 1..n |->
                              [k \in 1..Len(pushed[c]) |-> [pushed[c][k] EXCEPT !.call = c]]])
    /\ now = MaxTime
    /\ ret = None
    /\ VerifyIdle
    /\ GatewayIdle
    /\ ParseIdle

NextAnalytics ==
    \/ GetUsageAnalytics
    \/ GetCostBreakdown
    \/ GetRequests
    \/ ClearRequests

SpecAnalytics == InitAnalytics /\ [][NextAnalytics]_vars

(***************************************************************************)
(* Claims                                                                  *)
(***************************************************************************)

\* The request carries a raw body and the signature GitHub computes for it.
SigMatches(rq) ==
    /\ rq.raw # None
    /\ rq.sig # None
    /\ Val(rq.sig) = SignedBy(Secret, Val(rq.raw))

\* C1: a POST whose signature verification fails (header missing, raw body
\* missing, or header different from the expected digest) is answered 401
\* with the fixed body, and no GitHub or provider operation is invoked for it.
C1_RejectedUntouched ==
    \A r \in Req :
        (pc[r] # "new" /\ ~SigMatches(req[r])) =>
            /\ pc[r] = "done"
            /\ resp[r] = <<Reply(401, "Invalid signature")>>
            /\ ghLog[r] = <<>>
            /\ aiLog[r] = <<>>
            /\ posted[r] = <<>>

\* A pull_request 'opened' delivery signed with another secret was rejected
\* while a correctly signed delivery had the reviewer called.
C1_Witness ==
    \E r, q \in Req :
        /\ pc[r] = "done"
        /\ req[r].event = "pull_request"
        /\ req[r].raw = Some(<<1, 1>>)
        /\ req[r].sig = Some(SignedBy(WrongSecret, <<1, 1>>))
        /\ resp[r] = <<Reply(401, "Invalid signature")>>
        /\ ghLog[q] # <<>>

\* C2: verifySignature returns true exactly when the request has a raw body
\* and a header equal to 'sha256=' + hex(HMAC-SHA-256(secret, body)), and it
\* never raises; so a header or body changed in one byte, and a header of
\* another byte length, yield false.
C2_VerifyExact ==
    vOut # None =>
        /\ ~Val(vOut).threw
        /\ Val(vOut).value <=>
              /\ vRaw # None
              /\ vHdr # None
              /\ Val(vHdr) = SigPrefix \o HexDigest(HmacSha256(Secret, Val(vRaw)))
        /\ (vRaw # None /\ vHdr # None
              /\ Len(Utf8(Val(vHdr))) # Len(Utf8(SignedBy(Secret, Val(vRaw)))))
               => ~Val(vOut).value

\* verifySignature accepted a request.
C2_Witness == vOut # None /\ Val(vOut).value /\ vRaw # None /\ Len(Val(vRaw)) > 0

\* C3: for a verified pull_request or pull_request_review_comment event the
\* response is sent without waiting for the workflow: whenever the handler
\* is suspended at a provider or GitHub call, the response has been sent.
C3_ResponseNotGated ==
    \A r \in Req : pc[r] \notin {"new", "done"} => resp[r] # <<>>

ReviewsOf(r) == Cardinality({k \in 1..Len(posted[r]) : posted[r][k].what = "review"})

\* C4: delivering the same verified pull_request event twice submits at most
\* one review for that event.
C4_OneReviewPerEvent ==
    \A r, q \in Req :
        (r # q /\ pc[r] # "new" /\ pc[q] # "new" /\ req[r].guid = req[q].guid)
            => ReviewsOf(r) + ReviewsOf(q) <= 1

RecordsOf(c) == {i \in 1..Len(requests) : requests[i].call = c}

Completed(c) == call # <<>> /\ call[c].pc = "done"

\* C5: every completed call of generateResponse has appended exactly one
\* CallRecord (calls begun before a clearRequests aside).
C5_OneRecordPerCall ==
    \A c \in Calls :
        (Completed(c) /\ ~call[c].stale) => Cardinality(RecordsOf(c)) = 1

\* C6: a call that fails returns {content: '', success: false, error}, and
\* the CallRecord of that call is marked success=false with the same error
\* and no token counts or cost.
C6_FailureRecorded ==
    \A c \in Calls :
        (Completed(c) /\ ~Val(call[c].result).success) =>
            /\ Val(call[c].result).content = ""
            /\ Val(call[c].result).error # None
            /\ \A i \in RecordsOf(c) :
                 /\ ~requests[i].success
                 /\ requests[i].error = Val(call[c].result).error
                 /\ requests[i].inputTokens = None
                 /\ requests[i].outputTokens = None
                 /\ requests[i].totalTokens = None
                 /\ requests[i].cost = None

\* C7: a model or token limit the caller passes is the one sent to the
\* vendor and the one stored in the CallRecord's options, on every variant.
C7_CallerOptionsHonoured ==
    \A c \in Calls :
        (call # <<>> /\ call[c].pc # "idle") =>
            LET o == call[c].options
                sent == Val(call[c].sent)
            IN  /\ o.model # None => sent.model = o.model
                /\ o.maxTokens # None => sent.maxTokens = o.maxTokens
                /\ \A i \in RecordsOf(c) :
                     /\ o.model # None => requests[i].options.model = o.model
                     /\ o.maxTokens # None => requests[i].options.maxTokens = o.maxTokens

\* C8: every CallRecord that has both inputTokens and outputTokens has
\* totalTokens = inputTokens + outputTokens.
C8_TotalIsSum ==
    \A i \in 1..Len(requests) :
        LET r == requests[i] IN
        (r.inputTokens # None /\ r.outputTokens # None) =>
            r.totalTokens = Some(Val(r.inputTokens) + Val(r.outputTokens))

\* The ledger holds a record with both counts, one of them not zero.
C8_Witness ==
    \E i \in 1..Len(requests) :
        /\ requests[i].inputTokens = Some(1)
        /\ requests[i].outputTokens = Some(2)
        /\ requests[i].totalTokens = Some(3)

\* C9: a CallRecord has a cost only if it has both token counts and the
\* pricing table has an entry for the record's resolved model; failed
\* records and records of unpriced models carry no cost.
C9_CostOnlyWhenPriced ==
    \A i \in 1..Len(requests) :
        LET r == requests[i] IN
        r.cost # None =>
            /\ r.success
            /\ r.inputTokens # None
            /\ r.outputTokens # None
            /\ r.options.model # None
            /\ Val(r.options.model) \in DOMAIN Pricing

\* The ledger holds a record with a cost, and a successful record with
\* token counts for the unpriced model that has none.
C9_Witness ==
    \E i, j \in 1..Len(requests) :
        /\ requests[i].cost # None
        /\ requests[j].success
        /\ requests[j].inputTokens # None
        /\ requests[j].options.model = Some("m3")
        /\ requests[j].cost = None

\* The model generateResponse call c sent to the vendor.
Dispatched(c) == Val(Val(call[c].sent).model)

\* C10: for every completion whose dispatched model has a pricing entry, the
\* recorded cost is (inputTokens/1000)*inputCostPer1kTokens +
\* (outputTokens/1000)*outputCostPer1kTokens at that model's rates (costs
\* are held as 1000 times the amount).
C10_CostFormula ==
    \A i \in 1..Len(requests) :
        LET r == requests[i] IN
        (r.success /\ r.inputTokens # None /\ r.outputTokens # None
            /\ Dispatched(r.call) \in DOMAIN Pricing) =>
            r.cost = Some(Val(r.inputTokens) * Pricing[Dispatched(r.call)].inputCostPer1kTokens
                          + Val(r.outputTokens) * Pricing[Dispatched(r.call)].outputCostPer1kTokens)

\* A completion on the model the caller chose, not the default, is priced.
C10_Witness ==
    \E i \in 1..Len(requests) :
        /\ requests[i].options.model = Some("m2")
        /\ requests[i].cost = Some(5)

\* ---- C11..C15: the ledger's queries ----

\* The latest operation on the ledger was the query op.
Asked(op) == ret # None /\ Val(ret).op = op

\* The positions of the ledger's records r with startDate <= r.timestamp <=
\* endDate, an omitted bound placing no restriction.
Within(startDate, endDate) ==
    {i \in 1..Len(requests) :
        /\ startDate # None => Val(startDate) <= requests[i].timestamp
        /\ endDate # None => requests[i].timestamp <= Val(endDate)}

\* The sum of nums[i] over the positions i in S.
RECURSIVE SumAt(_, _)
SumAt(S, nums) ==
    IF S = {} THEN 0
    ELSE LET i == CHOOSE j \in S : TRUE IN nums[i] + SumAt(S \ {i}, nums)

\* C11: getUsageAnalytics(startDate, endDate) aggregates exactly the records
\* with startDate <= timestamp <= endDate, both bounds inclusive; an omitted
\* bound places no restriction on its side.
C11_AnalyticsWindow ==
    Asked("getUsageAnalytics") =>
        LET a == Val(ret).value
            S == Within(Val(ret).startDate, Val(ret).endDate)
            n == Cardinality(S)
        IN  /\ a.totalRequests = n
            /\ a.successfulRequests = Cardinality({i \in S : requests[i].success})
            /\ a.failedRequests = Cardinality({i \in S : ~requests[i].success})
            /\ a.totalTokens = SumAt(S, [i \in S |-> OrZero(requests[i].totalTokens)])
            /\ a.inputTokens = SumAt(S, [i \in S |-> OrZero(requests[i].inputTokens)])
            /\ a.outputTokens = SumAt(S, [i \in S |-> OrZero(requests[i].outputTokens)])
            /\ a.totalCost = SumAt(S, [i \in S |-> OrZero(requests[i].cost)])
            /\ a.averageLatency.num * (IF n = 0 THEN 1 ELSE n)
                 = a.averageLatency.den * SumAt(S, [i \in S |-> requests[i].latency])
            /\ DOMAIN a.requestsByModel = {ModelOf(requests[i]) : i \in S}
            /\ \A m \in DOMAIN a.requestsByModel :
                 a.requestsByModel[m] = Cardinality({i \in S : ModelOf(requests[i]) = m})

\* A query with both bounds on the timestamp of one record, with another
\* record outside them.
C11_Witness ==
    /\ Asked("getUsageAnalytics")
    /\ Val(ret).startDate = Some(MaxTime) /\ Val(ret).endDate = Some(MaxTime)
    /\ Val(ret).value.totalRequests = 1
    /\ Len(requests) >= 2

\* The date ranges that the cuts K (a cut after day k) divide the days into.
RangesOf(K) ==
    {[lo |-> lo, hi |-> CHOOSE h \in (K \cup {MaxTime}) :
                          h >= lo /\ \A k \in K : k >= lo => h <= k]
       : lo \in {0} \cup {k + 1 : k \in K}}

Partitions == {RangesOf(K) : K \in SUBSET (0..(MaxTime - 1))}

\* The sum of two fractions, in lowest terms.
RatioSum(x, y) == Ratio(x.num * y.den + y.num * x.den, x.den * y.den)

CountIn(byModel, m) == IF m \in DOMAIN byModel THEN byModel[m] ELSE 0

\* The pointwise sum of the analytics of the parts, field by field.
RECURSIVE SumOfParts(_)
SumOfParts(parts) ==
    IF parts = {}
    THEN [totalRequests |-> 0, successfulRequests |-> 0, failedRequests |-> 0,
          totalTokens |-> 0, inputTokens |-> 0, outputTokens |-> 0, totalCost |-> 0,
          averageLatency |-> Ratio(0, 1), weightedLatency |-> Ratio(0, 1),
          requestsByModel |-> [m \in {} |-> 0]]
    ELSE LET part == CHOOSE q \in parts : TRUE
             a == UsageAnalytics(requests, Some(part.lo), Some(part.hi))
             rest == SumOfParts(parts \ {part})
         IN  [totalRequests |-> a.totalRequests + rest.totalRequests,
              successfulRequests |-> a.successfulRequests + rest.successfulRequests,
              failedRequests |-> a.failedRequests + rest.failedRequests,
              totalTokens |-> a.totalTokens + rest.totalTokens,
              inputTokens |-> a.inputTokens + rest.inputTokens,
              outputTokens |-> a.outputTokens + rest.outputTokens,
              totalCost |-> a.totalCost + rest.totalCost,
              averageLatency |-> RatioSum(a.averageLatency, rest.averageLatency),
              weightedLatency |->
                  RatioSum(Ratio(a.averageLatency.num * a.totalRequests,
                                 a.averageLatency.den), rest.weightedLatency),
              requestsByModel |->
                  [m \in DOMAIN a.requestsByModel \cup DOMAIN rest.requestsByModel |->
                      CountIn(a.requestsByModel, m) + CountIn(rest.requestsByModel, m)]]

\* The counts, token sums, cost and per-model counts of a and b agree.
SameSums(a, b) ==
    /\ a.totalRequests = b.totalRequests
    /\ a.successfulRequests = b.successfulRequests
    /\ a.failedRequests = b.failedRequests
    /\ a.totalTokens = b.totalTokens
    /\ a.inputTokens = b.inputTokens
    /\ a.outputTokens = b.outputTokens
    /\ a.totalCost = b.totalCost
    /\ DOMAIN a.requestsByModel = DOMAIN b.requestsByModel
    /\ \A m \in DOMAIN a.requestsByModel : a.requestsByModel[m] = b.requestsByModel[m]

FullQuery ==
    Asked("getUsageAnalytics") /\ Val(ret).startDate = None /\ Val(ret).endDate = None

\* C12 as stated: getUsageAnalytics() over the full ledger equals the
\* pointwise sum of getUsageAnalytics over the parts of any partition of the
\* days into date ranges, for every aggregate, the average latency included.
C12_PartitionSumsAll ==
    FullQuery =>
        \A parts \in Partitions :
            /\ SameSums(Val(ret).value, SumOfParts(parts))
            /\ Val(ret).value.averageLatency = SumOfParts(parts).averageLatency

\* C12 as amended: the counts, token sums, cost and per-model counts of the
\* full ledger are the sums of the parts'; its average latency is the mean of
\* the parts' averages weighted by their request counts.
C12_PartitionSums ==
    FullQuery =>
        \A parts \in Partitions :
            LET whole == Val(ret).value
                sum == SumOfParts(parts)
            IN  /\ SameSums(whole, sum)
                /\ whole.averageLatency.num * sum.weightedLatency.den
                     * (IF whole.totalRequests = 0 THEN 1 ELSE whole.totalRequests)
                   = whole.averageLatency.den * sum.weightedLatency.num

\* A full query over a ledger with records on two different days.
C12_Witness ==
    /\ FullQuery
    /\ \E i, j \in 1..Len(requests) : requests[i].timestamp < requests[j].timestamp
    /\ Val(ret).value.totalTokens > 0

\* C13: getCostBreakdown() folds over the entire ledger: summed over the
\* models its requests, tokens and cost are the ledger's length and
\* getUsageAnalytics()'s totalTokens and totalCost, and each model's requests
\* are getUsageAnalytics().requestsByModel of that model.
C13_BreakdownTotals ==
    Asked("getCostBreakdown") =>
        LET b == Val(ret).value
            all == UsageAnalytics(requests, None, None)
        IN  /\ SumAt(DOMAIN b, [m \in DOMAIN b |-> b[m].requests]) = Len(requests)
            /\ Len(requests) = all.totalRequests
            /\ SumAt(DOMAIN b, [m \in DOMAIN b |-> b[m].tokens]) = all.totalTokens
            /\ SumAt(DOMAIN b, [m \in DOMAIN b |-> b[m].cost]) = all.totalCost
            /\ DOMAIN b = DOMAIN all.requestsByModel
            /\ \A m \in DOMAIN b : b[m].requests = all.requestsByModel[m]

\* A breakdown over two models, one of them the default name of a record
\* without a model, with tokens and a cost to sum.
C13_Witness ==
    /\ Asked("getCostBreakdown")
    /\ Cardinality(DOMAIN Val(ret).value) = 2
    /\ "unknown" \in DOMAIN Val(ret).value
    /\ \E m \in DOMAIN Val(ret).value :
         Val(ret).value[m].tokens > 0 /\ Val(ret).value[m].cost > 0

\* The ledger was cleared, and no call has resolved since.
Cleared == \E c \in Calls : call[c].stale

\* C14: after clearRequests(), no call resolving in between, getRequests()
\* is empty, getUsageAnalytics with any bounds returns zero for every count,
\* token sum, cost and the average latency with an empty requestsByModel,
\* getCostBreakdown() is empty, and a second clearRequests() changes nothing.
C14_ClearedIsZero ==
    /\ [](Cleared =>
            /\ requests = <<>>
            /\ Asked("getRequests") => Val(ret).value = <<>>
            /\ Asked("getCostBreakdown") => DOMAIN Val(ret).value = {}
            /\ Asked("getUsageAnalytics") =>
                 LET a == Val(ret).value
                 IN  /\ a.totalRequests = 0 /\ a.successfulRequests = 0
                     /\ a.failedRequests = 0 /\ a.totalTokens = 0
                     /\ a.inputTokens = 0 /\ a.outputTokens = 0
                     /\ a.totalCost = 0 /\ a.averageLatency.num = 0
                     /\ DOMAIN a.requestsByModel = {})
    /\ [][Cleared /\ ret' = None => requests' = requests /\ call' = call]_vars

\* A ledger that held records was cleared, and the analytics were then asked
\* for with both bounds given.
C14_Witness ==
    /\ Cleared
    /\ Asked("getUsageAnalytics")
    /\ Val(ret).startDate # None /\ Val(ret).endDate # None

\* C15: getUsageAnalytics (with any bounds) and getCostBreakdown leave the
\* ledger unchanged: the same records, in the same order, with the same
\* fields.
C15_QueriesKeepLedger ==
    [][(ret' # None /\ Val(ret').op \in {"getUsageAnalytics", "getCostBreakdown"})
          => requests' = requests]_vars

\* The analytics were asked for with bounds that leave a record out, on a
\* ledger of at least two records.
C15_Witness ==
    /\ Asked("getUsageAnalytics")
    /\ Len(requests) >= 2
    /\ Val(ret).value.totalRequests < Len(requests)

\* ---- C16..C18: CodeReviewerService.reviewPullRequest ----

\* Delivery r's reviewPullRequest returns in this step, with this summary.
Returns(r, summary) ==
    /\ pc[r] \in {"rv_getFiles", "rv_fetch", "rv_ai"}
    /\ pc'[r] = "sb_getPR"
    /\ wf'[r].summary = summary

AsksProvider(r) == Len(aiLog'[r]) > Len(aiLog[r])

\* C16: when no changed file qualifies (every file removed, failed to fetch
\* or of empty content), reviewPullRequest returns a review without comments
\* and with approved = false and does not invoke the provider: the provider
\* is asked only with a file that qualifies, and the return that asks nobody
\* is that review.
C16_NoFilesNoProvider ==
    [][\A r \in Req :
         /\ AsksProvider(r) /\ pc'[r] = "rv_ai" => wf'[r].fetched # {}
         /\ (pc[r] \in {"rv_getFiles", "rv_fetch"} /\ pc'[r] = "sb_getPR") =>
                /\ wf[r].fetched = {}
                /\ ~AsksProvider(r)
                /\ "reviewPullRequest" \notin {aiLog'[r][k] : k \in 1..Len(aiLog'[r])}
                /\ wf'[r].comments = <<>>
                /\ wf'[r].approved = FALSE
                /\ wf'[r].summary = "No reviewable files found"]_vars

\* reviewPullRequest has returned the review of no files after fetching
\* content that came back empty or failed.
C16_Witness ==
    \E r \in Req :
        /\ pc[r] = "sb_getPR"
        /\ wf[r].summary = "No reviewable files found"
        /\ \E k \in 1..Len(ghLog[r]) : ghLog[r][k].op = "getFileContent"
        /\ aiLog[r] = <<>>

\* The files among S, as the set of the paths of the comments.
PathsOf(S) == {PRFiles[f].filename : f \in S}

OneCommentEach(comments, S) ==
    /\ Len(comments) = Cardinality(S)
    /\ {comments[k].path : k \in 1..Len(comments)} = PathsOf(S)

ReviewEventDelivered(r) ==
    /\ pc[r] # "new"
    /\ SigMatches(req[r])
    /\ req[r].event = "pull_request"
    /\ PayloadAction(Val(req[r].raw)) \in Triggers
    /\ HasRepository(Val(req[r].raw))

\* C18: for every verified pull_request event with action opened,
\* synchronize or reopened in which all GitHub calls succeed, a review is
\* submitted, whatever the provider does: the handling does not end without
\* one.
C18_ReviewAlwaysSubmitted ==
    \A r \in Req :
        (ReviewEventDelivered(r) /\ pc[r] = "done" /\ r \notin rejected)
            => ReviewsOf(r) >= 1

\* ---- C19, C20: the capability's reviewPullRequest ----

\* generateResponse succeeded and reviewPullRequest has run on its text.
Reviewed == pOut # None /\ pOp = "reviewPullRequest" /\ Val(pIn).success

\* The text is a JSON text between one leading opening fence and one
\* trailing fence.
Fenced(text) ==
    /\ Len(text) >= 3
    /\ text[1] = "[fence json]"
    /\ text[Len(text)] = "[fence]"
    /\ ~JsonParse(SubSeq(text, 2, Len(text) - 1)).threw

Unfenced(text) == SubSeq(text, 2, Len(text) - 1)

\* C19: on every variant, reviewPullRequest returns the same CodeReview for
\* a JSON text between a leading and a trailing fence as for that JSON text
\* without the fences.
C19_FencedSameAsUnfenced ==
    (Reviewed /\ Fenced(Val(pIn).content)) =>
        Val(pOut) = CapabilityReview(variant,
                                     ApiResponse(TRUE, Unfenced(Val(pIn).content), None))

\* C20: when generateResponse succeeds and its text, the fences stripped, is
\* not valid JSON, reviewPullRequest throws an error whose message contains
\* 'Failed to parse response as JSON' and returns no CodeReview.
C20_InvalidJsonFails ==
    (Reviewed /\ JsonParse(ExtractJsonFromMarkdown(Val(pIn).content)).threw) =>
        /\ Val(pOut).threw
        /\ \E k \in 1..Len(Val(pOut).message) :
             Val(pOut).message[k] = "Failed to parse response as JSON: "
        /\ Val(pOut).review \notin Reviews

\* Text that is not JSON, inside fences, was answered and reviewPullRequest
\* threw on it.
C20_Witness ==
    /\ Reviewed
    /\ variant = "ChatGPT"
    /\ Val(pIn).content = <<"[fence json]", "\n", "x", "\n", "[fence]">>
    /\ Val(pOut).threw

\* ---- C21: the capability's higher-level methods ----

\* C21: each of reviewPullRequest, generateTests and respondToComment makes
\* exactly one generateResponse call; when that call reports success = false
\* the method throws a new error whose message is the operation's prefix
\* followed by the underlying error's message; on success generateTests and
\* respondToComment return the provider's text unmodified.
C21_OneCallWrappedError ==
    /\ pCalls <= 1
    /\ pOut # None =>
          /\ pCalls = 1
          /\ ~Val(pIn).success =>
                /\ Val(pOut).threw
                /\ Val(pOut).message = <<OperationPrefix(pOp), Val(Val(pIn).error)>>
          /\ (Val(pIn).success /\ pOp # "reviewPullRequest") =>
                /\ ~Val(pOut).threw
                /\ Val(pOut).review = Val(pIn).content

\* generateTests has thrown on a generateResponse that failed, on Gemini.
C21_Witness ==
    /\ variant = "Gemini"
    /\ pOp = "generateTests"
    /\ pOut # None
    /\ Val(pOut).threw
    /\ Val(pIn).error = Some("Unexpected response format")

\* ---- C22..C24: CodeReviewerService.handleCommentResponse ----

\* Delivery r is a verified pull_request_review_comment event with action
\* created and a complete payload: handleCommentResponse is called for it.
CommentEventDelivered(r) ==
    /\ pc[r] # "new"
    /\ SigMatches(req[r])
    /\ req[r].event = "pull_request_review_comment"
    /\ PayloadAction(Val(req[r].raw)) = "created"
    /\ HasComment(Val(req[r].raw))
    /\ HasRepository(Val(req[r].raw))

\* C22: for a comment without in_reply_to_id handleCommentResponse is a
\* no-op: no GitHub collaborator operation and no provider call is made, and
\* no reply is posted.
C22_NotAReplyNoOp ==
    \A r \in Req :
        (CommentEventDelivered(r) /\ InReplyTo(Val(req[r].raw)) = None) =>
            /\ ghLog[r] = <<>>
            /\ aiLog[r] = <<>>
            /\ posted[r] = <<>>

\* Delivery r's handleCommentResponse is past its checks of reviewer.ts:148-159.
Responding(r) == pc[r] \in {"cr_context", "cr_file", "cr_ai", "cr_reply"}

\* C23: the provider's respondToComment is called and a reply is posted only
\* when the comment's in_reply_to_id resolves to an existing review comment
\* whose author is the configured bot username; when the original comment is
\* missing or anyone else's, neither happens.
C23_OnlyRepliesToBot ==
    /\ [](\A r \in Req :
            Responding(r) =>
                /\ wf[r].orig = "bot"
                /\ InReplyTo(Val(req[r].raw)) # None)
    /\ [][\A r \in Req :
            /\ AsksProvider(r) /\ aiLog'[r][Len(aiLog'[r])] = "respondToComment"
                  => Responding(r)
            /\ (Len(posted'[r]) > Len(posted[r])
                   /\ posted'[r][Len(posted'[r])].what = "reply")
                  => Responding(r)]_vars

\* A reply to the bot's comment was answered, and a reply to someone else's
\* comment was handled without a provider call.
C23_Witness ==
    \E r, q \in Req :
        /\ pc[r] = "done"
        /\ Len(posted[r]) = 1 /\ posted[r][1].what = "reply"
        /\ aiLog[r] = <<"respondToComment">>
        /\ CommentEventDelivered(q)
        /\ pc[q] = "done"
        /\ InReplyTo(Val(req[q].raw)) # None
        /\ ghLog[q] = <<Op("getReviewComments", "")>>
        /\ aiLog[q] = <<>>
        /\ caught[q] = {}

\* C24: handleCommentResponse never throws: a failure of getReviewComments,
\* of the provider's respondToComment or of createReplyComment, and a comment
\* without an id, are caught inside it, and it returns normally: nothing
\* reaches the catch blocks of its callers and the handler answers 200.
C24_CommentResponseNeverThrows ==
    \A r \in Req :
        CommentEventDelivered(r) =>
            /\ caught[r] \subseteq {"reviewer.ts:181", "reviewer.ts:196"}
            /\ pc[r] = "done" => resp[r] = <<Reply(200, "Webhook processed")>>

\* The provider answered a reply whose comment has no id, and the throw
\* that follows was caught in handleCommentResponse.
C24_Witness ==
    \E r \in Req :
        /\ CommentEventDelivered(r)
        /\ pc[r] = "done"
        /\ CommentId(Val(req[r].raw)) = None
        /\ aiLog[r] = <<"respondToComment">>
        /\ caught[r] = {"reviewer.ts:196"}

\* ---- C25: the dispatch of verified events ----

\* Nothing was invoked for delivery r: no GitHub operation, no provider call,
\* nothing created.
Untouched(r) == ghLog[r] = <<>> /\ aiLog[r] = <<>> /\ posted[r] = <<>>

\* Where the handler is while the review cycle of a pull_request event runs,
\* and while handleCommentResponse runs.
ReviewLabels ==
    {"rv_getPR", "rv_getFiles", "rv_fetch", "rv_ai", "sb_getPR", "sb_create",
     "tg_getPR", "tg_getFiles", "tg_content", "tg_ai", "tg_post"}
CommentLabels == {"cr_getComments", "cr_context", "cr_file", "cr_ai", "cr_reply"}

\* C25: for a verified request the reviewer is invoked only for a
\* pull_request event with action opened, synchronize or reopened (the
\* review cycle) or a pull_request_review_comment event with action created
\* (handleCommentResponse, once); a ping is answered 200 'pong', and every
\* other event type or action is answered 200 with no reviewer, provider or
\* GitHub operation invoked.
C25_DispatchByEvent ==
    /\ [](\A r \in Req :
            (pc[r] # "new" /\ SigMatches(req[r])) =>
                LET event == req[r].event
                    action == PayloadAction(Val(req[r].raw))
                    review == event = "pull_request"
                                /\ action \in {"opened", "synchronize", "reopened"}
                    comment == event = "pull_request_review_comment" /\ action = "created"
                IN  /\ event = "ping" =>
                          pc[r] = "done" /\ resp[r] = <<Reply(200, "pong")>> /\ Untouched(r)
                    /\ (event # "ping" /\ ~review /\ ~comment) =>
                          /\ pc[r] = "done"
                          /\ resp[r] = <<Reply(200, "Webhook processed")>>
                          /\ Untouched(r)
                    /\ ~Untouched(r) => review \/ comment
                    /\ pc[r] \in ReviewLabels => review
                    /\ pc[r] \in CommentLabels => comment
                    /\ CommentEventDelivered(r) =>
                          ghLog[r][1] = Op("getReviewComments", ""))
    /\ [][\A r \in Req :
            (pc'[r] \in {"rv_getPR", "cr_getComments"} /\ pc'[r] # pc[r]) => pc[r] = "new"]_vars

\* A verified ping was answered 'pong' and a verified pull_request event with
\* action closed was acknowledged, nothing invoked for either.
C25_Witness ==
    \E r, q \in Req :
        /\ SigMatches(req[r]) /\ req[r].event = "ping"
        /\ resp[r] = <<Reply(200, "pong")>>
        /\ SigMatches(req[q]) /\ req[q].event = "pull_request"
        /\ PayloadAction(Val(req[q].raw)) = "closed"
        /\ resp[q] = <<Reply(200, "Webhook processed")>>
        /\ Untouched(q)

\* ---- C26: CodeReviewerService.submitReview ----

\* C26: submitReview calls getPullRequest before createReview and passes the
\* head SHA that call returned; the review event is APPROVE exactly when
\* review.approved is true and COMMENT otherwise; every comment is passed
\* with its own path and body, with its position when it has one and with
\* position 1 when it has none.
C26_SubmitReviewMapping ==
    [][\A r \in Req :
         (pc[r] = "sb_getPR" /\ pc'[r] = "sb_create") =>
            LET review == wf[r]
                sent == wf'[r].sub[1]
            IN  /\ ghLog[r][Len(ghLog[r])] = Op("getPullRequest", "")
                /\ ghLog'[r] = ghLog[r] \o <<Op("createReview", "")>>
                /\ sent.sha = head
                /\ sent.event = (IF review.approved THEN "APPROVE" ELSE "COMMENT")
                /\ Len(sent.comments) = Len(review.comments)
                /\ \A k \in 1..Len(review.comments) :
                     /\ sent.comments[k].path = review.comments[k].path
                     /\ sent.comments[k].body = review.comments[k].body
                     /\ sent.comments[k].position =
                          (IF review.comments[k].position = None THEN 1
                           ELSE Val(review.comments[k].position))]_vars

\* ---- C27: failures inside the branches of the handler ----

\* Delivery r is a verified pull_request_review_comment event.
CommentEvent(r) ==
    /\ pc[r] # "new"
    /\ SigMatches(req[r])
    /\ req[r].event = "pull_request_review_comment"

\* C27: for a verified pull_request event with a well-formed payload and a
\* triggering action, every failure of reviewPullRequest, submitReview or
\* test generation is caught inside the branch and the response is 200,
\* never 500; the same holds for every failure while a
\* pull_request_review_comment event is handled.
C27_FailuresStill200 ==
    \A r \in Req :
        (ReviewEventDelivered(r) \/ CommentEvent(r)) =>
            /\ "webhook.ts:82" \notin caught[r]
            /\ \A k \in 1..Len(resp[r]) : resp[r][k].status = 200
            /\ pc[r] = "done" => resp[r] = <<Reply(200, "Webhook processed")>>

\* A pull_request event whose createReview rejected and a comment event
\* whose payload has no repository were both answered 200.
C27_Witness ==
    \E r, q \in Req :
        /\ ReviewEventDelivered(r)
        /\ pc[r] = "done"
        /\ r \in rejected
        /\ ghLog[r][Len(ghLog[r])] = Op("createReview", "")
        /\ caught[r] = {"webhook.ts:154"}
        /\ CommentEvent(q)
        /\ caught[q] = {"webhook.ts:282"}
        /\ resp[q] = <<Reply(200, "Webhook processed")>>

\* ---- C28, C29: WebhookService.generateTestsForPR ----

\* The path of the latest call of operation name in log.
LastPath(log, name) ==
    LET at == {k \in 1..Len(log) : log[k].op = name}
    IN  log[CHOOSE k \in at : \A j \in at : j <= k].path

\* The changed file of that name.
FileNamed(name) == PRFiles[CHOOSE f \in listed : PRFiles[f].filename = name]

TestLabels == {"tg_getPR", "tg_getFiles", "tg_content", "tg_ai", "tg_post"}

\* C28: test generation is invoked only when AUTO_GENERATE_TESTS is enabled
\* and only for changed files with a .ts or .js extension whose name contains
\* neither 'test.' nor 'spec.'; each generated test is posted by a
\* createReview call of its own, with event COMMENT and one comment on that
\* file.
C28_TestsOnlyForCodeFiles ==
    /\ [](\A r \in Req :
            (pc[r] \in TestLabels \/ \E k \in 1..Len(aiLog[r]) : aiLog[r][k] = "generateTests")
                => autoTests)
    /\ [][\A r \in Req :
            /\ pc'[r] = "tg_content" /\ pc[r] # "tg_content" =>
                 LET file == FileNamed(LastPath(ghLog'[r], "getFileContent"))
                 IN  /\ ghLog'[r][Len(ghLog'[r])].op = "getFileContent"
                     /\ file.ext \in {".ts", ".js"}
                     /\ file.marker \notin {"test.", "spec."}
            /\ pc'[r] = "tg_post" /\ pc[r] # "tg_post" =>
                 /\ aiLog[r][Len(aiLog[r])] = "generateTests"
                 /\ ghLog'[r] = ghLog[r] \o
                       <<Op("createReview", LastPath(ghLog[r], "getFileContent"))>>
            /\ (pc[r] \in TestLabels /\ Len(posted'[r]) > Len(posted[r])) =>
                 LET made == posted'[r][Len(posted'[r])]
                 IN  /\ pc[r] = "tg_post"
                     /\ Len(posted'[r]) = Len(posted[r]) + 1
                     /\ made.what = "tests"
                     /\ made.event = "COMMENT"
                     /\ Len(made.comments) = 1
                     /\ made.comments[1].path = LastPath(ghLog[r], "createReview")]_vars

\* The tests of the two code files were posted, one review each.
C28_Witness ==
    \E r \in Req :
        /\ pc[r] = "done"
        /\ Len(posted[r]) = 3
        /\ posted[r][2].what = "tests" /\ posted[r][2].comments[1].path = "a"
        /\ posted[r][3].what = "tests" /\ posted[r][3].comments[1].path = "b"
        /\ Cardinality({k \in 1..Len(ghLog[r]) : ghLog[r][k].op = "createReview"}) = 3

\* The names of the changed files eligible for test generation, in the
\* order of the file list.
Eligible ==
    LET S == {f \in listed : /\ PRFiles[f].ext \in {".ts", ".js"}
                             /\ PRFiles[f].marker \notin {"test.", "spec."}}
    IN  [k \in 1..Cardinality(S) |-> PRFiles[Ascending(S)[k]].filename]

LoopLabels == {"tg_content", "tg_ai", "tg_post"}

\* Delivery r's loop turns to the file after its i-th, or ends after the last.
MovesOn(r, i) ==
    IF i < Len(Eligible)
    THEN /\ pc'[r] = "tg_content"
         /\ wf'[r].i = i + 1
         /\ ghLog'[r][Len(ghLog'[r])] = Op("getFileContent", Eligible[i + 1])
    ELSE /\ pc'[r] = "done"
         /\ resp'[r] = <<Reply(200, "Webhook processed")>>

\* C29: in generateTestsForPR a failure while the tests of one file are
\* generated or posted (content fetch, provider call or createReview) does
\* not stop the batch: every other eligible file is still attempted, in file
\* order, and generateTestsForPR itself never throws.
C29_BatchSurvivesFailures ==
    [][\A r \in Req :
         /\ (pc[r] = "tg_getFiles" /\ pc'[r] # "tg_getFiles") =>
               \/ "webhook.ts:222" \in caught'[r] /\ pc'[r] = "done"
               \/ MovesOn(r, 0)
         /\ (pc[r] \in LoopLabels /\ <<pc'[r], wf'[r]>> # <<pc[r], wf[r]>>) =>
               \/ /\ wf'[r].i = wf[r].i
                  /\ <<pc[r], pc'[r]>> \in {<<"tg_content", "tg_ai">>, <<"tg_ai", "tg_post">>}
                  /\ caught'[r] = caught[r]
               \/ MovesOn(r, wf[r].i)
         /\ pc[r] \in TestLabels =>
               /\ caught'[r] \ caught[r]
                     \subseteq {"reviewer.ts:128", "webhook.ts:218", "webhook.ts:222"}
               /\ \A k \in 1..Len(resp'[r]) : resp'[r][k].status = 200]_vars

\* The content of the first code file could not be fetched, and the tests of
\* the second were generated and posted all the same.
C29_Witness ==
    \E r \in Req :
        /\ pc[r] = "done"
        /\ "webhook.ts:218" \in caught[r]
        /\ Len(posted[r]) = 2
        /\ posted[r][2].what = "tests" /\ posted[r][2].comments[1].path = "b"
        /\ aiLog[r][Len(aiLog[r])] = "generateTests"
        /\ Cardinality({k \in 1..Len(aiLog[r]) : aiLog[r][k] = "generateTests"}) = 1

\* ---- C30: the files reviewPullRequest hands to the provider ----

\* The positions in S, ascending.
InListOrder(S) == [k \in 1..Cardinality(S) |-> CHOOSE f \in S : Cardinality({g \in S : g < f}) = k - 1]

\* C30: in CodeReviewerService.reviewPullRequest a failure to fetch one
\* file's content never aborts the operation, and the list handed to the
\* provider is exactly the changed files that are not removed, were fetched
\* without error and have non-empty content, in the order of the pull
\* request's file list, each with its filename, full content and patch.
C30_HandedFiles ==
    [][\A r \in Req :
         /\ pc[r] = "rv_fetch" =>
               /\ pc'[r] \in {"rv_fetch", "rv_ai", "sb_getPR"}
               /\ caught'[r] \ caught[r] \subseteq {"reviewer.ts:34"}
         /\ (AsksProvider(r) /\ pc'[r] = "rv_ai") =>
               LET w == wf'[r]
                   kept == {f \in listed : PRFiles[f].status # "removed"}
                   failed == kept \ (w.fetched \cup w.blank)
                   S == {f \in kept : f \notin failed /\ f \notin w.blank}
                   files == InListOrder(S)
               IN  /\ w.pending = {}
                   /\ Len(w.handed) = Len(files)
                   /\ \A k \in 1..Len(files) :
                        /\ w.handed[k].filename = PRFiles[files[k]].filename
                        /\ w.handed[k].content = <<"content of", PRFiles[files[k]].filename>>
                        /\ w.handed[k].patch = PRFiles[files[k]].patch]_vars

\* The provider was handed the first and the last of three files to fetch,
\* the fetch of the one between them having failed.
C30_Witness ==
    \E r \in Req :
        /\ pc[r] = "rv_ai"
        /\ r \in rejected
        /\ caught[r] = {"reviewer.ts:34"}
        /\ Len(wf[r].handed) = 2
        /\ wf[r].handed[1].filename = "a"
        /\ wf[r].handed[2].filename = "b"

\* ---- C31: the join of the file-content fetches ----

\* The calls log gained in this step, in order.
Issued(r) == SubSeq(ghLog'[r], Len(ghLog[r]) + 1, Len(ghLog'[r]))

\* C31: in reviewPullRequest all file-content fetches are issued
\* concurrently, in one turn and before any of them settles, and the provider
\* is called only after every one of them has settled, in any interleaving of
\* their completions; no getFileContent call is made for a removed file.
C31_FetchesJoined ==
    [][\A r \in Req :
         /\ (pc[r] = "rv_getFiles" /\ pc'[r] # "rv_getFiles" /\ r \notin rejected') =>
               LET kept == {f \in listed : PRFiles[f].status # "removed"}
               IN  /\ Len(Issued(r)) >= Cardinality(kept)
                   /\ \A k \in 1..Cardinality(kept) :
                        Issued(r)[k] = Op("getFileContent", PRFiles[InListOrder(kept)[k]].filename)
                   /\ \A k \in 1..Len(Issued(r)) :
                        Issued(r)[k].op = "getFileContent" =>
                            FileNamed(Issued(r)[k].path).status # "removed"
                   /\ wf'[r].fetched = {} /\ wf'[r].blank = {}
         /\ pc[r] = "rv_fetch" =>
               \A k \in 1..Len(Issued(r)) : Issued(r)[k].op # "getFileContent"
         /\ (AsksProvider(r) /\ pc'[r] = "rv_ai") =>
               /\ wf'[r].pending = {}
               /\ Len(aiLog'[r]) = Len(aiLog[r]) + 1]_vars

\* The fetch of the last file has settled while that of the first is still
\* awaited.
C31_Witness ==
    \E r \in Req :
        /\ pc[r] = "rv_fetch"
        /\ wf[r].pending = {f \in listed : PRFiles[f].filename = "a"}
        /\ \E f \in wf[r].fetched : PRFiles[f].filename = "b"
        /\ aiLog[r] = <<>>

\* ---- C32: records of interleaved calls ----

\* A record is whole: it carries the start and the duration of the call it
\* names, an error exactly when it failed, and its counts all or none.
WholeRecord(r) ==
    /\ call[r.call].pc \in (IF r.success THEN {"logged", "done"} ELSE {"done"})
    /\ r.timestamp = call[r.call].requestTime
    /\ r.latency \in 0..(now - r.timestamp)
    /\ r.success <=> r.error = None
    /\ (r.inputTokens = None) = (r.outputTokens = None)
    /\ (r.inputTokens = None) = (r.totalTokens = None)
    /\ r.cost # None => r.totalTokens # None
    /\ ~r.success => r.totalTokens = None

\* C32: with several generateResponse calls in flight and reads or
\* clearRequests at any suspension point, every record in the ledger is
\* complete and belongs to one call; a record in the ledger never changes, a
\* call's record is appended whole, and only clearRequests removes records.
C32_RecordsWhole ==
    /\ [](\A i \in 1..Len(requests) : WholeRecord(requests[i]))
    /\ [][\/ requests' = requests
          \/ requests' = <<>>
          \/ /\ Len(requests') = Len(requests) + 1
             /\ SubSeq(requests', 1, Len(requests)) = requests
             /\ \E c \in Calls : /\ call[c].pc # call'[c].pc
                                 /\ requests'[Len(requests')].call = c]_vars
    /\ [][\A c \in Calls :
            (call[c].pc = "awaiting" /\ call'[c].pc # "awaiting") =>
                Len(requests') = Len(requests) + 1]_vars

\* Two calls were in flight when the ledger was cleared; the second was
\* answered first.
C32_Witness ==
    /\ Len(requests) = 2
    /\ requests[1].call = 2 /\ requests[2].call = 1
    /\ call[1].stale /\ call[2].stale
    /\ requests[1].timestamp # requests[2].timestamp

\* ---- C33: the options a record stores ----

\* C33: every CallRecord, failed or successful, stores the resolved request
\* options (the caller's options merged over the instance's defaults), so
\* that the queries attribute it to the model the call was dispatched to and
\* never to 'unknown'.
C33_ResolvedOptionsStored ==
    \A i \in 1..Len(requests) :
        LET r == requests[i]
            sent == Val(call[r.call].sent)
        IN  /\ r.options = sent
            /\ ModelOf(r) = Val(sent.model)

\* ---- C34: the counts of getUsageAnalytics against the calls' outcomes ----

\* The calls that returned an ApiResponse with this success flag.
ReturnedWith(flag) ==
    {c \in Calls : Completed(c) /\ Val(call[c].result).success = flag}

\* C34: once a sequence of generateResponse calls has returned (the ledger
\* never cleared), getUsageAnalytics() counts as successful the calls that
\* returned success=true and as failed those that returned success=false; a
\* call that returned a failed ApiResponse has no success=true record.
C34_CountsMatchOutcomes ==
    (\A c \in Calls : call[c].pc \in {"idle", "done"} /\ ~call[c].stale) =>
        LET analytics == UsageAnalytics(requests, None, None)
        IN  /\ analytics.successfulRequests = Cardinality(ReturnedWith(TRUE))
            /\ analytics.failedRequests = Cardinality(ReturnedWith(FALSE))
            /\ \A i \in 1..Len(requests) :
                 requests[i].success => requests[i].call \in ReturnedWith(TRUE)

\* ---- C35: the reply survives a failed context lookup ----

\* C35: in handleCommentResponse a failure of the code-context lookup
\* (getReviewComments or getFileContent at HEAD) does not prevent the reply:
\* respondToComment is still called, without code context, and at most one
\* reply is posted per invocation, threaded to the id of the incoming
\* comment.
C35_ReplyWithoutContext ==
    [][\A r \in Req :
         /\ (pc[r] \in {"cr_context", "cr_file"} /\ pc'[r] # pc[r]) =>
               /\ pc'[r] \in {"cr_file", "cr_ai"}
               /\ pc'[r] = "cr_ai" =>
                     /\ aiLog'[r] = <<"respondToComment">>
                     /\ "reviewer.ts:181" \in caught'[r] => wf'[r].context = None
         /\ (CommentEventDelivered(r) /\ posted'[r] # posted[r]) =>
               /\ pc[r] = "cr_reply"
               /\ aiLog[r] = <<"respondToComment">>
               /\ posted'[r] = <<ReplyComment(Val(CommentId(Val(req[r].raw))))>>]_vars

\* The lookup of the file at HEAD failed and the reply was posted under the
\* incoming comment.
C35_Witness ==
    \E r \in Req :
        /\ pc[r] = "done"
        /\ "reviewer.ts:181" \in caught[r]
        /\ Op("getFileContent", "a") \in {ghLog[r][k] : k \in 1..Len(ghLog[r])}
        /\ aiLog[r] = <<"respondToComment">>
        /\ Len(posted[r]) = 1
        /\ posted[r][1].inReplyTo = CommentId(Val(req[r].raw))

\* ---- C36: extractJsonFromMarkdown ----

\* The text begins with the opening fence, ends with a fence.
LeadingFence(text) == text # <<>> /\ text[1] = "[fence json]"
TrailingFence(text) == text # <<>> /\ text[Len(text)] = "[fence]"

\* The text without the opening fence at its very start and the fence at its
\* very end, each with the whitespace next to it.
OuterFencesRemoved(text) ==
    LET opened == IF LeadingFence(text)
                  THEN SubSeq(text, 2 + SpacesAfter(text, 1), Len(text))
                  ELSE text
    IN  IF TrailingFence(opened)
        THEN SubSeq(opened, 1, Len(opened) - 1 - SpacesBefore(opened, Len(opened)))
        ELSE opened

\* The text extractJsonFromMarkdown was applied to.
Stripped == Reviewed /\ StripsFences(variant)

C36_UnchangedWithoutFences ==
    Stripped =>
        LET text == Val(pIn).content
        IN  (~LeadingFence(text) /\ ~TrailingFence(text)) =>
                ExtractJsonFromMarkdown(text) = text

C36_OnlyOuter ==
    Stripped =>
        LET text == Val(pIn).content
        IN  ExtractJsonFromMarkdown(text) = OuterFencesRemoved(text)

C36_Idempotent ==
    Stripped =>
        LET once == ExtractJsonFromMarkdown(Val(pIn).content)
        IN  ExtractJsonFromMarkdown(once) = once

\* C36: extractJsonFromMarkdown returns its input unchanged when the text
\* has no leading opening fence and no trailing fence, removes only a fence
\* at the very start and a fence at the very end, and is idempotent on text
\* already stripped.
C36_StripsOuterFencesOnly ==
    /\ C36_UnchangedWithoutFences
    /\ C36_OnlyOuter
    /\ C36_Idempotent

\* ---- C37: the bot's own replies ----

\* Delivery r is the 'created' event of a reply that the bot wrote.
OwnReplyDelivered(r) ==
    /\ CommentEventDelivered(r)
    /\ CommentAuthor(Val(req[r].raw)) = "bot"
    /\ InReplyTo(Val(req[r].raw)) # None

\* C37: the bot never answers its own comments: when a reply it posted comes
\* back as a 'created' event authored by the bot, the provider's
\* respondToComment is not called and no further reply is posted; an event
\* for a developer's reply leads to at most one reply of the bot.
C37_NoReplyToOwnComment ==
    \A r \in Req :
        /\ OwnReplyDelivered(r) => aiLog[r] = <<>> /\ posted[r] = <<>>
        /\ CommentEventDelivered(r) => Len(posted[r]) <= 1

\* ---- C38: the commit a review is submitted for ----

\* C38: the commit SHA that submitReview passes to createReview is the head
\* SHA at which reviewPullRequest fetched the file contents of that review,
\* also when the head changes between review and submission.
C38_ReviewOfFetchedCommit ==
    [][\A r \in Req :
         (ReviewEventDelivered(r) /\ ReviewsOf(r)' > ReviewsOf(r)) =>
             \A k \in (Len(posted[r]) + 1)..Len(posted'[r]) :
                 posted'[r][k].what = "review" => posted'[r][k].sha = wf[r].sha]_vars

\* ---- C39: the order of the steps of one review cycle ----

FetchLabels == {"rv_getPR", "rv_getFiles", "rv_fetch", "rv_ai"}
SubmitLabels == {"sb_getPR", "sb_create"}

\* Delivery r's handler reaches label in this step.
Reaches(r, label) == pc[r] # label /\ pc'[r] = label

\* A throw of this step lands in the catch of handlePullRequestEvent.
CycleFails(r) == "webhook.ts:154" \in caught'[r] \ caught[r]

\* C39: within one review cycle submitReview starts only after
\* reviewPullRequest has resolved, and test generation only after
\* submitReview has resolved with the review created; when reviewPullRequest
\* or submitReview fails, no later step runs.
C39_StepsInOrder ==
    /\ [](\A r \in Req :
            /\ pc[r] \in SubmitLabels \cup TestLabels => wf[r].summary # ""
            /\ pc[r] \in TestLabels => ReviewsOf(r) = 1 /\ autoTests
            /\ "webhook.ts:154" \in caught[r] => pc[r] = "done" /\ posted[r] = <<>>)
    /\ [][\A r \in Req :
            /\ Reaches(r, "sb_getPR") =>
                  pc[r] \in {"rv_fetch", "rv_ai"} /\ ~CycleFails(r)
            /\ Reaches(r, "tg_getPR") =>
                  /\ pc[r] = "sb_create" /\ ~CycleFails(r)
                  /\ ReviewsOf(r) = 0 /\ ReviewsOf(r)' = 1
            /\ CycleFails(r) =>
                  /\ pc[r] \in FetchLabels \cup SubmitLabels
                  /\ pc'[r] = "done"
                  /\ ghLog'[r] = ghLog[r] /\ aiLog'[r] = aiLog[r]
                  /\ posted'[r] = posted[r]]_vars

\* With test generation enabled, createReview was rejected and the cycle
\* ended there.
C39_Witness ==
    \E r \in Req :
        /\ autoTests
        /\ pc[r] = "done"
        /\ "webhook.ts:154" \in caught[r]
        /\ ghLog[r][Len(ghLog[r])] = Op("createReview", "")
        /\ posted[r] = <<>>

\* ---- C40: one response per POST ----

\* C40: every POST receives exactly one HTTP response, sent when its handler
\* ends, with status 401 (verification failed), 500 (an error thrown out of
\* the dispatch) or 200 (ping, dispatched event, ignored event), on every
\* path.
C40_ExactlyOneResponse ==
    \A r \in Req :
        /\ Len(resp[r]) = (IF pc[r] = "done" THEN 1 ELSE 0)
        /\ pc[r] = "done" =>
              resp[r][1].status =
                  (IF ~SigMatches(req[r]) THEN 401
                   ELSE IF "webhook.ts:82" \in caught[r] THEN 500
                   ELSE 200)

\* A verified pull_request event without a repository object was answered
\* 500.
C40_Witness ==
    \E r \in Req :
        /\ pc[r] = "done"
        /\ SigMatches(req[r])
        /\ req[r].event = "pull_request"
        /\ resp[r] = <<Reply(500, "Error processing webhook")>>

====
